---- MODULE Spec2Model ----
(***************************************************************************)
(* NonBlockingAudioPlayer (src/voice_mode/audio_player.py): one player     *)
(* instance, one caller thread that issues play(), wait(), stop() and      *)
(* wait_with_ptt_interrupt(), the device's callback thread of every output *)
(* stream the player opened, and the processes that create and remove the  *)
(* two push-to-talk signal files.                                          *)
(***************************************************************************)
EXTENDS Integers, Sequences, FiniteSets, TLC

\* Bounds of the model.
MaxPlays == 2       \* play() calls in one run (each opens at most one stream)
MaxLen == 2         \* frames in a sample buffer
MaxChunk == 2       \* buffer_size ranges over 1..MaxChunk

VARIABLES
    buffer_size,        \* self.buffer_size
    dsp_enabled,        \* self.dsp_enabled
    dsp_chain,          \* self.dsp_chain is not None
    audio_queue,        \* self.audio_queue: [isNone, items]
    stream,             \* self.stream: 0 is None, else the id of a stream
    playback_complete,  \* self.playback_complete (threading.Event)
    playback_error,     \* self.playback_error: 0 is None, else the error of play k
    streams,            \* the device's view of every stream the player opened
    toggle_file,        \* PTT_TOGGLE_FILE exists
    start_file,         \* PTT_START_FILE exists
    pc,                 \* where the caller thread is
    op,                 \* the outermost call the caller thread is in
    nplays,             \* play() calls so far
    samples,            \* play(): the buffer after the DSP pass
    dsp_failed,         \* play(): the DSP pass raised and was logged
    idx,                \* play(): the loop variable i of the chunk loop
    blocking,           \* play(): its blocking argument
    timeout,            \* wait()/wait_with_ptt_interrupt(): "None" or "finite"
    ptt_interrupted,    \* wait_with_ptt_interrupt(): its local of that name
    ptt_seen,           \* wait_with_ptt_interrupt(): how the current tick ended
    after_play,         \* the call in progress follows a play() that returned
    after_stop,         \* the call in progress follows a stop() that returned
    ret,                \* how the last finished call ended (reset by the next call)
    enqueued,           \* history: every item put on the current queue
    dequeued,           \* history: every item taken off it, and by whom
    sets,               \* history: playback_complete.set() calls by callbacks on this queue
    last_cb,            \* history: what the last callback invocation did
    limiter,            \* a Limiter: lookahead_samples, gain, gain_target
    last_process,       \* history: the last process() call of the limiter
    default_chain,      \* dsp.py's _default_chain: config and stages
    dsp_users,          \* per player thread: has self.dsp_chain, where it is
    last_chain,         \* history: the last DSPChain.process() call
    chain_ops,          \* DSP chain operations so far
    compressor,         \* a Compressor: envelope, gain_reduction
    last_compress,      \* history: the last process() call of the compressor
    leveler,            \* an LA2ALeveler: optical_cell, gain_reduction
    last_level,         \* history: the last process() call of the leveler
    stage_calls,        \* process() calls on the compressor or leveler so far
    ptt_client,         \* a PTTClient: its _subscriber_* fields
    ptt_threads,        \* where each PTTSubscriber thread is
    ptt_caller          \* the thread that calls subscribe()/unsubscribe()

vars == <<buffer_size, dsp_enabled, dsp_chain, audio_queue, stream,
          playback_complete, playback_error, streams, toggle_file, start_file,
          pc, op, nplays, samples, dsp_failed, idx, blocking, timeout,
          ptt_interrupted,
          ptt_seen, after_play, after_stop, ret, enqueued, dequeued, sets,
          last_cb, limiter, last_process, default_chain, dsp_users,
          last_chain, chain_ops, compressor, last_compress, leveler,
          last_level, stage_calls, ptt_client, ptt_threads, ptt_caller>>

StreamIds == 1..MaxPlays

Min(a, b) == IF a < b THEN a ELSE b

\* The end-of-stream marker (None on the queue), distinct from every chunk.
EndMarker == [kind |-> "end", data |-> <<>>]

\* outdata[a:b] = 0
Zeros(n) == [k \in 1..n |-> 0]

\* A buffer of n frames. Frame k of the caller's buffer holds k, so order and
\* loss are visible; the DSP chain's output for it holds -k, so the two differ.
Buffer(n, processed) ==
    [data |-> [k \in 1..n |-> IF processed THEN -k ELSE k],
     processed |-> processed]

NoReturn ==
    [op |-> "none", kind |-> "none", err |-> 0, completed |-> FALSE,
     interrupted |-> FALSE, timed_out |-> FALSE]

NoCallback == [stream |-> 0, kind |-> "none", out |-> <<>>]

\* Limiter.__init__: the gain and its target start at 1.0.
NewLimiter(lookahead) ==
    [lookahead_samples |-> lookahead,
     gain |-> [n |-> 1, d |-> 1], gain_target |-> [n |-> 1, d |-> 1]]

NoProcess ==
    [ceiling |-> [n |-> 1, d |-> 1], input |-> <<>>, gains |-> <<>>,
     output |-> <<>>]

MaxPlayers == 2     \* player instances, each with a thread of its own
MaxRate == 2        \* sample rates range over 1..MaxRate

Players == 1..MaxPlayers

\* DSPConfig(): the dataclass defaults. Levels are in steps of about 6 dB
\* (a factor of two), rates in steps for which the limiter's lookahead is one
\* more sample. Of the three EQ band gains the low one is kept; the mid and
\* high ones stay 0.
DefaultConfig ==
    [enabled |-> TRUE, sample_rate |-> 1, pre_gain_db |-> 0,
     eq_low_gain_db |-> 0, eq_low_freq |-> 1, eq_high_freq |-> 3,
     leveler_enabled |-> TRUE, compressor_enabled |-> TRUE,
     limiter_enabled |-> TRUE, limiter_ceiling_db |-> -1,
     output_gain_db |-> 0]

\* SimpleEQ.__init__/_build_filters: the coefficients are a function of the
\* sample rate and the two crossover frequencies, kept as those three.
NewEQ(sample_rate, low_freq, high_freq) ==
    [sample_rate |-> sample_rate, low_freq |-> low_freq,
     high_freq |-> high_freq]

\* LA2ALeveler.__init__ and Compressor.__init__: the state of either is a
\* function of the samples it has processed since; `seen` counts them.
NewStage(sample_rate) == [sample_rate |-> sample_rate, seen |-> 0]

\* int(lookahead_ms / 1000.0 * sample_rate), the rates being counted in
\* units of 1000 / lookahead_ms Hz
LookaheadSamples(sample_rate) == sample_rate

\* DSPChain.__init__ / _init_processors
NewChain(config) ==
    [created |-> TRUE, config |-> config,
     eq |-> NewEQ(config.sample_rate, config.eq_low_freq, config.eq_high_freq),
     leveler |-> NewStage(config.sample_rate),
     compressor |-> NewStage(config.sample_rate),
     limiter |-> NewLimiter(LookaheadSamples(config.sample_rate))]

\* _default_chain = None
NoChain == [NewChain(DefaultConfig) EXCEPT !.created = FALSE]

\* Compressor.__init__ (the sample rate is in the coefficients process() is
\* given)
NewCompressor ==
    [envelope |-> [n |-> 0, d |-> 1], gain_reduction |-> [n |-> 1, d |-> 1]]

NoCompress ==
    [seq |-> 0, threshold |-> [n |-> 1, d |-> 1], ratio |-> [n |-> 1, d |-> 1],
     makeup |-> [n |-> 1, d |-> 1], input |-> <<>>, envelope |-> <<>>,
     gains |-> <<>>, output |-> <<>>]

\* LA2ALeveler.__init__
NewLeveler ==
    [optical_cell |-> [n |-> 0, d |-> 1], gain_reduction |-> [n |-> 1, d |-> 1]]

NoLevel ==
    [seq |-> 0, peak_reduction_db |-> 0, output_gain_db |-> 0, input |-> <<>>,
     output |-> <<>>]

MaxSubscribes == 2  \* subscribe() calls that start a thread

ThreadIds == 1..MaxSubscribes

\* PTTClient.__init__
NewClient ==
    [running |-> FALSE, callback |-> 0, thread |-> 0, socket |-> "none"]

NoThreads == [t \in ThreadIds |-> "unstarted"]

\* The calling thread: where it is, the calls it has made, and the last call,
\* its callback argument and how it ended
NoCaller ==
    [pc |-> "idle", calls |-> 0, op |-> "none", arg |-> 0, kind |-> "none"]

\* Each player, on a thread of its own: self.dsp_chain set or None, where the
\* thread is in play()'s DSP pass, the sample rate play() was given, and the
\* chain as it was when the thread went into process()
NoUsers ==
    [p \in Players |->
        [dsp_chain |-> FALSE, pc |-> "idle", rate |-> 1, entered |-> NoChain]]

NoChainCall ==
    [seq |-> 0, by |-> 0, rate |-> 1, config |-> DefaultConfig,
     input |-> <<>>, trace |-> <<>>, output |-> <<>>]

\* __init__
Init ==
    /\ buffer_size \in 1..MaxChunk
    /\ dsp_enabled \in BOOLEAN
    /\ dsp_chain = FALSE
    /\ audio_queue = [isNone |-> TRUE, items |-> <<>>]
    /\ stream = 0
    /\ playback_complete = FALSE
    /\ playback_error = 0
    /\ streams = [s \in StreamIds |-> "unopened"]
    /\ toggle_file = FALSE
    /\ start_file = FALSE
    /\ pc = "idle"
    /\ op = "none"
    /\ nplays = 0
    /\ samples = Buffer(0, FALSE)
    /\ dsp_failed = FALSE
    /\ idx = 0
    /\ blocking = FALSE
    /\ timeout = "None"
    /\ ptt_interrupted = FALSE
    /\ ptt_seen = "none"
    /\ after_play = FALSE
    /\ after_stop = FALSE
    /\ ret = NoReturn
    /\ enqueued = <<>>
    /\ dequeued = <<>>
    /\ sets = 0
    /\ last_cb = NoCallback
    /\ limiter = NewLimiter(0)
    /\ last_process = NoProcess
    /\ default_chain = NoChain
    /\ dsp_users = NoUsers
    /\ last_chain = NoChainCall
    /\ chain_ops = 0
    /\ compressor = NewCompressor
    /\ last_compress = NoCompress
    /\ leveler = NewLeveler
    /\ last_level = NoLevel
    /\ stage_calls = 0
    /\ ptt_client = NewClient
    /\ ptt_threads = NoThreads
    /\ ptt_caller = NoCaller

\* The limiter is worked on by the DSP steps alone; the player's steps take
\* the DSP pass by its outcome and leave it as it is.
dspVars == <<default_chain, dsp_users, last_chain, chain_ops>>
chainVars == <<limiter, last_process, dspVars>>
stageVars == <<compressor, last_compress, leveler, last_level, stage_calls>>
clientVars == <<ptt_client, ptt_threads, ptt_caller>>
configVars == <<buffer_size, dsp_enabled, chainVars, stageVars, clientVars>>
fileVars == <<toggle_file, start_file>>
fieldVars == <<dsp_chain, audio_queue, stream, playback_complete, playback_error>>
histVars == <<enqueued, dequeued, sets, last_cb>>
localVars == <<samples, dsp_failed, idx, blocking, timeout, ptt_interrupted,
               ptt_seen,
               after_play, after_stop>>
callerVars == <<pc, op, nplays, ret, localVars>>

\* A call begins: the previous call's result is history.
Enter(o) ==
    /\ pc = "idle"
    /\ op' = o
    /\ after_play' = (ret.op = "play" /\ ret.kind = "returned")
    /\ after_stop' = (ret.op = "stop" /\ ret.kind = "returned")
    /\ ret' = NoReturn

\* A call ends with result r: its locals are gone.
Return(r) ==
    /\ pc' = "idle"
    /\ op' = "none"
    /\ ret' = r
    /\ samples' = Buffer(0, FALSE)
    /\ dsp_failed' = FALSE
    /\ idx' = 0
    /\ blocking' = FALSE
    /\ timeout' = "None"
    /\ ptt_interrupted' = FALSE
    /\ ptt_seen' = "none"
    /\ after_play' = FALSE
    /\ after_stop' = FALSE

Returned(o) == [NoReturn EXCEPT !.op = o, !.kind = "returned"]
Raised(o, e) == [NoReturn EXCEPT !.op = o, !.kind = "raised", !.err = e]

(***************************************************************************)
(* The device callback.                                                    *)
(***************************************************************************)

\* Mutant of QueueGet: the newest item is taken (a LIFO queue).
QueueGet_Lifo(items) ==
    [item |-> items[Len(items)], rest |-> SubSeq(items, 1, Len(items) - 1)]

\* queue.Queue.get_nowait on a non-empty queue: the oldest item, FIFO.
QueueGet(items) == [item |-> Head(items), rest |-> Tail(items)]

\* Mutant of CallbackResult: the end marker stops the stream without setting
\* the completion flag.
CallbackResult_EndNoSet(items, frames) ==
    IF items = <<>>
    THEN [kind |-> "underrun", out |-> Zeros(frames), set |-> FALSE,
          stop |-> FALSE, rest |-> items]
    ELSE LET chunk == Head(items)
             chunk_len == Len(chunk.data)
         IN  IF chunk.kind = "end"
             THEN [kind |-> "end", out |-> Zeros(frames), set |-> FALSE,
                   stop |-> TRUE, rest |-> Tail(items)]
             ELSE IF chunk_len < frames
             THEN [kind |-> "partial",
                   out |-> chunk.data \o Zeros(frames - chunk_len),
                   set |-> TRUE, stop |-> TRUE, rest |-> Tail(items)]
             ELSE [kind |-> "chunk", out |-> SubSeq(chunk.data, 1, frames),
                   set |-> FALSE, stop |-> FALSE, rest |-> Tail(items)]

\* Mutant of CallbackResult: a chunk of exactly `frames` frames is taken for
\* the final partial chunk (chunk_len <= frames).
CallbackResult_FullIsFinal(items, frames) ==
    IF items = <<>>
    THEN [kind |-> "underrun", out |-> Zeros(frames), set |-> FALSE,
          stop |-> FALSE, rest |-> items]
    ELSE LET chunk == Head(items)
             chunk_len == Len(chunk.data)
         IN  IF chunk.kind = "end"
             THEN [kind |-> "end", out |-> Zeros(frames), set |-> TRUE,
                   stop |-> TRUE, rest |-> Tail(items)]
             ELSE IF chunk_len <= frames
             THEN [kind |-> "partial",
                   out |-> chunk.data \o Zeros(frames - chunk_len),
                   set |-> TRUE, stop |-> TRUE, rest |-> Tail(items)]
             ELSE [kind |-> "chunk", out |-> SubSeq(chunk.data, 1, frames),
                   set |-> FALSE, stop |-> FALSE, rest |-> Tail(items)]

\* Mutant of CallbackResult: an empty queue is taken for the end of the
\* stream.
CallbackResult_EmptyEnds(items, frames) ==
    IF items = <<>>
    THEN [kind |-> "underrun", out |-> Zeros(frames), set |-> TRUE,
          stop |-> TRUE, rest |-> items]
    ELSE LET chunk == Head(items)
             chunk_len == Len(chunk.data)
         IN  IF chunk.kind = "end"
             THEN [kind |-> "end", out |-> Zeros(frames), set |-> TRUE,
                   stop |-> TRUE, rest |-> Tail(items)]
             ELSE IF chunk_len < frames
             THEN [kind |-> "partial",
                   out |-> chunk.data \o Zeros(frames - chunk_len),
                   set |-> TRUE, stop |-> TRUE, rest |-> Tail(items)]
             ELSE [kind |-> "chunk", out |-> SubSeq(chunk.data, 1, frames),
                   set |-> FALSE, stop |-> FALSE, rest |-> Tail(items)]

\* Mutant of CallbackResult: the frames of a partial chunk are not written.
CallbackResult_DropsPartial(items, frames) ==
    IF items = <<>>
    THEN [kind |-> "underrun", out |-> Zeros(frames), set |-> FALSE,
          stop |-> FALSE, rest |-> items]
    ELSE LET chunk == Head(items)
             chunk_len == Len(chunk.data)
         IN  IF chunk.kind = "end"
             THEN [kind |-> "end", out |-> Zeros(frames), set |-> TRUE,
                   stop |-> TRUE, rest |-> Tail(items)]
             ELSE IF chunk_len < frames
             THEN [kind |-> "partial", out |-> Zeros(frames),
                   set |-> TRUE, stop |-> TRUE, rest |-> Tail(items)]
             ELSE [kind |-> "chunk", out |-> SubSeq(chunk.data, 1, frames),
                   set |-> FALSE, stop |-> FALSE, rest |-> Tail(items)]

\* _audio_callback's body for one invocation that requests `frames` frames,
\* the queue holding `items`: the branch taken, the buffer written to
\* outdata, whether playback_complete.set() runs, whether CallbackStop is
\* raised, and what is left on the queue.
CallbackResult(items, frames) ==
    IF items = <<>>
    THEN \* except queue.Empty: silence, nothing else
         [kind |-> "underrun", out |-> Zeros(frames), set |-> FALSE,
          stop |-> FALSE, rest |-> items]
    ELSE LET got == QueueGet(items)
             chunk == got.item
             chunk_len == Len(chunk.data)
         IN  IF chunk.kind = "end"
             THEN [kind |-> "end", out |-> Zeros(frames), set |-> TRUE,
                   stop |-> TRUE, rest |-> got.rest]
             ELSE IF chunk_len < frames
             THEN [kind |-> "partial",
                   out |-> chunk.data \o Zeros(frames - chunk_len),
                   set |-> TRUE, stop |-> TRUE, rest |-> got.rest]
             ELSE [kind |-> "chunk", out |-> SubSeq(chunk.data, 1, frames),
                   set |-> FALSE, stop |-> FALSE, rest |-> got.rest]

\* One invocation of _audio_callback by the device for stream s. The stream
\* was opened with blocksize = buffer_size, so that many frames are asked for.
Callback(s) ==
    /\ streams[s] = "active"
    /\ ~audio_queue.isNone
    /\ LET r == CallbackResult(audio_queue.items, buffer_size)
       IN  /\ audio_queue' = [audio_queue EXCEPT !.items = r.rest]
           /\ playback_complete' = (playback_complete \/ r.set)
           /\ streams' = IF r.stop THEN [streams EXCEPT ![s] = "finished"]
                         ELSE streams
           /\ sets' = IF r.set THEN sets + 1 ELSE sets
           /\ dequeued' = IF Len(r.rest) = Len(audio_queue.items) THEN dequeued
                          ELSE Append(dequeued,
                                      [by |-> s,
                                       item |-> QueueGet(audio_queue.items).item])
           /\ last_cb' = [stream |-> s, kind |-> r.kind, out |-> r.out]
    /\ UNCHANGED <<configVars, fileVars, callerVars, dsp_chain, stream,
                   playback_error, enqueued>>

(***************************************************************************)
(* play()                                                                  *)
(***************************************************************************)

\* Mutant of Chunk: the slice is one frame short (samples[i:i + size - 1]).
Chunk_Short(buf, i, size) ==
    [kind |-> "chunk",
     data |-> SubSeq(buf.data, i + 1, Min(i + size - 1, Len(buf.data)))]

\* samples[i:i + buffer_size] as a queue item
Chunk(buf, i, size) ==
    [kind |-> "chunk",
     data |-> SubSeq(buf.data, i + 1, Min(i + size, Len(buf.data)))]

\* Mutant of DspResult: after an exception the buffer is taken for processed.
DspResult_ProcessedOnError(n, raised) == Buffer(n, TRUE)

\* What `samples` is after the try block of the DSP pass on a buffer of n
\* frames: the chain's output, or, the assignment not having happened
\* because get_default_chain() or process() raised, the input buffer.
DspResult(n, raised) == IF raised THEN Buffer(n, FALSE) ELSE Buffer(n, TRUE)

\* play(samples, sample_rate, blocking) up to the DSP pass: the completion
\* flag and the stored error are reset, then the buffer of n frames goes
\* through the DSP chain, which is created on first use; an exception of the
\* chain's creation or of process() leaves the buffer unprocessed.
CallPlay(n, b) ==
    /\ Enter("play")
    /\ nplays < MaxPlays
    /\ nplays' = nplays + 1
    /\ blocking' = b
    /\ playback_complete' = FALSE
    /\ playback_error' = 0
    /\ \/ /\ ~dsp_enabled
          /\ samples' = Buffer(n, FALSE)
          /\ dsp_failed' = FALSE
          /\ UNCHANGED dsp_chain
       \/ /\ dsp_enabled
          /\ dsp_chain' = TRUE
          /\ samples' = DspResult(n, FALSE)
          /\ dsp_failed' = FALSE
       \/ /\ dsp_enabled
          /\ ~dsp_chain
          /\ UNCHANGED dsp_chain     \* get_default_chain() raised
          /\ samples' = DspResult(n, TRUE)
          /\ dsp_failed' = TRUE
       \/ /\ dsp_enabled
          /\ dsp_chain' = TRUE       \* process() raised
          /\ samples' = DspResult(n, TRUE)
          /\ dsp_failed' = TRUE
    /\ pc' = "play_queue"
    /\ UNCHANGED <<configVars, fileVars, audio_queue, stream, streams, histVars,
                   idx, timeout, ptt_interrupted, ptt_seen>>

\* self.audio_queue = queue.Queue()
PlayNewQueue ==
    /\ pc = "play_queue"
    /\ audio_queue' = [isNone |-> FALSE, items |-> <<>>]
    /\ enqueued' = <<>>
    /\ dequeued' = <<>>
    /\ last_cb' = NoCallback
    /\ sets' = 0
    /\ idx' = 0
    /\ pc' = "play_fill"
    /\ UNCHANGED <<configVars, fileVars, dsp_chain, stream, playback_complete,
                   playback_error, streams, op, nplays, ret, samples, dsp_failed,
                   blocking, timeout, ptt_interrupted, ptt_seen, after_play,
                   after_stop>>

\* One iteration of: for i in range(0, len(samples), self.buffer_size)
PlayPut ==
    /\ pc = "play_fill"
    /\ idx < Len(samples.data)
    /\ LET chunk == Chunk(samples, idx, buffer_size)
       IN  /\ audio_queue' = [audio_queue EXCEPT !.items = Append(@, chunk)]
           /\ enqueued' = Append(enqueued, chunk)
    /\ idx' = idx + buffer_size
    /\ UNCHANGED <<configVars, fileVars, dsp_chain, stream, playback_complete,
                   playback_error, streams, dequeued, sets, last_cb, pc, op,
                   nplays, ret, samples, dsp_failed, blocking, timeout, ptt_interrupted,
                   ptt_seen, after_play, after_stop>>

\* self.audio_queue.put(None), after the loop
PlayPutEnd ==
    /\ pc = "play_fill"
    /\ idx >= Len(samples.data)
    /\ audio_queue' = [audio_queue EXCEPT !.items = Append(@, EndMarker)]
    /\ enqueued' = Append(enqueued, EndMarker)
    /\ pc' = "play_open"
    /\ UNCHANGED <<configVars, fileVars, dsp_chain, stream, playback_complete,
                   playback_error, streams, dequeued, sets, last_cb, op, nplays,
                   ret, localVars>>

\* Mutant of PlayOpen: the blocking argument is ignored.
PlayOpen_IgnoresBlocking ==
    /\ pc = "play_open"
    /\ \/ /\ stream' = nplays
          /\ streams' = [streams EXCEPT ![nplays] = "active"]
          /\ UNCHANGED playback_error
          /\ Return(Returned("play"))
       \/ /\ UNCHANGED stream
          /\ UNCHANGED streams
          /\ playback_error' = nplays
          /\ Return(Raised("play", nplays))
       \/ /\ stream' = nplays
          /\ streams' = [streams EXCEPT ![nplays] = "created"]
          /\ playback_error' = nplays
          /\ Return(Raised("play", nplays))
    /\ UNCHANGED <<configVars, fileVars, dsp_chain, audio_queue,
                   playback_complete, histVars, nplays>>

\* self.stream = sd.OutputStream(...); self.stream.start(). The constructor
\* may raise (self.stream keeps its old value), start() may raise (the new
\* stream is held, open and not started); either error is stored and raised.
\* Nothing is done to the stream self.stream referred to before.
PlayOpen ==
    /\ pc = "play_open"
    /\ \/ /\ stream' = nplays
          /\ streams' = [streams EXCEPT ![nplays] = "active"]
          /\ UNCHANGED playback_error
          /\ IF blocking
             THEN /\ pc' = "wait"
                  /\ UNCHANGED <<op, ret, localVars>>
             ELSE Return(Returned("play"))
       \/ /\ UNCHANGED stream
          /\ UNCHANGED streams
          /\ playback_error' = nplays
          /\ Return(Raised("play", nplays))
       \/ /\ stream' = nplays
          /\ streams' = [streams EXCEPT ![nplays] = "created"]
          /\ playback_error' = nplays
          /\ Return(Raised("play", nplays))
    /\ UNCHANGED <<configVars, fileVars, dsp_chain, audio_queue,
                   playback_complete, histVars, nplays>>

(***************************************************************************)
(* wait()                                                                  *)
(***************************************************************************)

\* if self.stream: self.stream.stop(); self.stream.close() -- the device's
\* view after it (self.stream = None is the caller's assignment).
StopAndClose(st, h) == IF h # 0 THEN [st EXCEPT ![h] = "closed"] ELSE st

\* Mutant of WaitRaises: a timeout raises too.
WaitRaises_OnTimeout(err, timed_out) == err # 0 \/ timed_out

\* if self.playback_error: raise self.playback_error
WaitRaises(err, timed_out) == err # 0

CallWait(t) ==
    /\ Enter("wait")
    /\ pc' = "wait"
    /\ timeout' = t
    /\ UNCHANGED <<configVars, fileVars, fieldVars, streams, histVars, nplays,
                   samples, dsp_failed, idx, blocking, ptt_interrupted, ptt_seen>>

\* wait(timeout) from the moment playback_complete.wait(timeout) returns: it
\* returns when the flag is set, or (a finite timeout only) when the timeout
\* elapsed with the flag unset. The stream is then stopped and closed and the
\* stored error, if any, raised. Called by play(blocking=True), with no
\* timeout, a raise passes through play()'s handler, which stores the error
\* again and re-raises it.
WaitDone ==
    /\ pc = "wait"
    /\ playback_complete \/ timeout = "finite"
    /\ streams' = StopAndClose(streams, stream)
    /\ stream' = 0
    /\ Return([op |-> op,
               kind |-> IF WaitRaises(playback_error, ~playback_complete)
                        THEN "raised" ELSE "returned",
               err |-> IF WaitRaises(playback_error, ~playback_complete)
                       THEN playback_error ELSE 0,
               completed |-> FALSE, interrupted |-> FALSE,
               timed_out |-> ~playback_complete])
    /\ UNCHANGED <<configVars, fileVars, dsp_chain, audio_queue,
                   playback_complete, playback_error, histVars, nplays>>

(***************************************************************************)
(* stop()                                                                  *)
(***************************************************************************)

CallStop ==
    /\ Enter("stop")
    /\ pc' = "stop_set"
    /\ UNCHANGED <<configVars, fileVars, fieldVars, streams, histVars, nplays,
                   samples, dsp_failed, idx, blocking, timeout, ptt_interrupted, ptt_seen>>

\* self.playback_complete.set()
StopSet ==
    /\ pc = "stop_set"
    /\ playback_complete' = TRUE
    /\ pc' = "stop_stream"
    /\ UNCHANGED <<configVars, fileVars, dsp_chain, audio_queue, stream,
                   playback_error, streams, histVars, op, nplays, ret, localVars>>

\* if self.stream: stop, close, self.stream = None
StopStream ==
    /\ pc = "stop_stream"
    /\ streams' = StopAndClose(streams, stream)
    /\ stream' = 0
    /\ pc' = "stop_drain"
    /\ UNCHANGED <<configVars, fileVars, dsp_chain, audio_queue,
                   playback_complete, playback_error, histVars, op, nplays, ret,
                   localVars>>

\* One iteration of: while not self.audio_queue.empty(): get_nowait()
StopDrain ==
    /\ pc = "stop_drain"
    /\ ~audio_queue.isNone
    /\ audio_queue.items # <<>>
    /\ LET got == QueueGet(audio_queue.items)
       IN  /\ audio_queue' = [audio_queue EXCEPT !.items = got.rest]
           /\ dequeued' = Append(dequeued, [by |-> 0, item |-> got.item])
    /\ UNCHANGED <<configVars, fileVars, dsp_chain, stream, playback_complete,
                   playback_error, streams, enqueued, sets, last_cb, callerVars>>

\* Mutant of StopDone: stop() returns without draining the queue.
StopDone_NoDrain ==
    /\ pc = "stop_drain"
    /\ IF op = "ptt"
       THEN /\ pc' = "ptt_finish"
            /\ UNCHANGED <<op, ret, localVars>>
       ELSE Return(Returned("stop"))
    /\ UNCHANGED <<configVars, fileVars, fieldVars, streams, histVars, nplays>>

\* stop() returns: there is no queue, or the queue is empty. Called by
\* wait_with_ptt_interrupt, control goes on to that function's break.
StopDone ==
    /\ pc = "stop_drain"
    /\ audio_queue.isNone \/ audio_queue.items = <<>>
    /\ IF op = "ptt"
       THEN /\ pc' = "ptt_finish"
            /\ UNCHANGED <<op, ret, localVars>>
       ELSE Return(Returned("stop"))
    /\ UNCHANGED <<configVars, fileVars, fieldVars, streams, histVars, nplays>>

(***************************************************************************)
(* wait_with_ptt_interrupt()                                               *)
(***************************************************************************)

\* Mutant of PttObserve: the start file is looked at first.
PttObserve_StartFirst(toggle, start) ==
    IF start THEN "start" ELSE IF toggle THEN "toggle" ELSE "absent"

\* The signal check of one poll tick, both exists() calls and the unlink()
\* succeeding: the toggle file is looked at first, the start file only when
\* there is no toggle file.
PttObserve(toggle, start) ==
    IF toggle THEN "toggle" ELSE IF start THEN "start" ELSE "absent"

\* Mutant of FilesAfter: the start file is unlinked on detection too.
FilesAfter_UnlinkStart(seen, toggle, start) ==
    [toggle |-> IF seen = "toggle" THEN FALSE ELSE toggle,
     start |-> IF seen = "start" THEN FALSE ELSE start]

\* Mutant of FilesAfter: a tick that ends the loop for the timeout or for
\* completion unlinks the toggle file too.
FilesAfter_UnlinkOnBreak(seen, toggle, start) ==
    [toggle |-> IF seen \in {"toggle", "timeout", "complete"} THEN FALSE
                ELSE toggle,
     start |-> start]

\* The signal files after one poll tick that ended as `seen`: the toggle file
\* is unlinked when it was detected, and nothing else is written.
FilesAfter(seen, toggle, start) ==
    [toggle |-> IF seen = "toggle" THEN FALSE ELSE toggle, start |-> start]

\* Mutant of PttOnSignal: break without self.stop().
PttOnSignal_NoStop == "ptt_finish"

\* Where control goes once a signal was detected: self.stop(), then break.
PttOnSignal == "stop_set"

\* Mutant of PttOnError: the error ends the loop.
PttOnError_Breaks == "ptt_finish"

\* Where control goes once the check of the signal files raised OSError: the
\* except clause logs it and the loop goes on to its sleep.
PttOnError == "ptt_sleep"

\* Mutant of PlaybackCompleted: the interrupt is not looked at.
PlaybackCompleted_IgnoresInterrupt(is_set, interrupted) == is_set

\* Mutant of PlaybackCompleted: the flag is not looked at.
PlaybackCompleted_IgnoresFlag(is_set, interrupted) == ~interrupted /\ ~is_set

\* playback_completed = self.playback_complete.is_set() and not ptt_interrupted
PlaybackCompleted(is_set, interrupted) == is_set /\ ~interrupted

CallPtt(t) ==
    /\ Enter("ptt")
    /\ pc' = "ptt_tick"
    /\ timeout' = t
    /\ ptt_interrupted' = FALSE
    /\ UNCHANGED <<configVars, fileVars, fieldVars, streams, histVars, nplays,
                   samples, dsp_failed, idx, blocking, ptt_seen>>

\* One pass of the while loop up to its break or its sleep.
PttTick ==
    /\ pc = "ptt_tick"
    /\ \/ \* playback_complete.is_set(): break
          /\ playback_complete
          /\ ptt_seen' = "complete"
          /\ pc' = "ptt_finish"
          /\ UNCHANGED ptt_interrupted
       \/ \* elapsed >= timeout: break
          /\ ~playback_complete
          /\ timeout = "finite"
          /\ ptt_seen' = "timeout"
          /\ pc' = "ptt_finish"
          /\ UNCHANGED ptt_interrupted
       \/ \* the toggle file exists and is unlinked
          /\ ~playback_complete
          /\ PttObserve(toggle_file, start_file) = "toggle"
          /\ ptt_interrupted' = TRUE
          /\ ptt_seen' = "toggle"
          /\ pc' = PttOnSignal
       \/ \* no toggle file, the start file exists: it is left alone
          /\ ~playback_complete
          /\ PttObserve(toggle_file, start_file) = "start"
          /\ ptt_interrupted' = TRUE
          /\ ptt_seen' = "start"
          /\ pc' = PttOnSignal
       \/ \* neither file exists
          /\ ~playback_complete
          /\ PttObserve(toggle_file, start_file) = "absent"
          /\ ptt_seen' = "absent"
          /\ pc' = "ptt_sleep"
          /\ UNCHANGED ptt_interrupted
       \/ \* exists() or unlink() raised OSError: logged, nothing changed
          /\ ~playback_complete
          /\ ptt_seen' = "oserror"
          /\ pc' = PttOnError
          /\ UNCHANGED ptt_interrupted
    /\ toggle_file' = FilesAfter(ptt_seen', toggle_file, start_file).toggle
    /\ start_file' = FilesAfter(ptt_seen', toggle_file, start_file).start
    /\ UNCHANGED <<configVars, fieldVars, streams, histVars, op, nplays, ret,
                   samples, dsp_failed, idx, blocking, timeout, after_play, after_stop>>

\* time.sleep(poll_interval)
PttSleep ==
    /\ pc = "ptt_sleep"
    /\ pc' = "ptt_tick"
    /\ ptt_seen' = "none"
    /\ UNCHANGED <<configVars, fileVars, fieldVars, streams, histVars, op,
                   nplays, ret, samples, dsp_failed, idx, blocking, timeout,
                   ptt_interrupted, after_play, after_stop>>

\* After the loop: the stream, if still held, is stopped and closed; the
\* stored error is raised; else (playback_completed, ptt_interrupted).
PttFinish ==
    /\ pc = "ptt_finish"
    /\ streams' = StopAndClose(streams, stream)
    /\ stream' = 0
    /\ Return([op |-> "ptt",
               kind |-> IF playback_error # 0 THEN "raised" ELSE "returned",
               err |-> playback_error,
               completed |-> IF playback_error # 0 THEN FALSE
                             ELSE PlaybackCompleted(playback_complete,
                                                    ptt_interrupted),
               interrupted |-> IF playback_error # 0 THEN FALSE
                               ELSE ptt_interrupted,
               timed_out |-> ptt_seen = "timeout"])
    /\ UNCHANGED <<configVars, fileVars, dsp_chain, audio_queue,
                   playback_complete, playback_error, histVars, nplays>>

(***************************************************************************)
(* The other processes that write the signal files: whatever raises a      *)
(* push-to-talk signal, and the recording logic that consumes one. The     *)
(* player reads the files only in the poll tick, so what matters of these  *)
(* writes is what the files are when a tick runs: the writes are taken     *)
(* just before a tick.                                                     *)
(***************************************************************************)

EnvToggle ==
    /\ pc = "ptt_tick"
    /\ toggle_file' = ~toggle_file
    /\ UNCHANGED <<configVars, start_file, fieldVars, streams, histVars,
                   callerVars>>

EnvStart ==
    /\ pc = "ptt_tick"
    /\ start_file' = ~start_file
    /\ UNCHANGED <<configVars, toggle_file, fieldVars, streams, histVars,
                   callerVars>>

Timeouts == {"None", "finite"}

\* A step of the caller thread inside a call.
CallerStep ==
    \/ PlayNewQueue
    \/ PlayPut
    \/ PlayPutEnd
    \/ PlayOpen
    \/ WaitDone
    \/ StopSet
    \/ StopStream
    \/ StopDrain
    \/ StopDone
    \/ PttTick
    \/ PttSleep
    \/ PttFinish

\* The caller thread makes a call.
Call ==
    \/ \E n \in 0..MaxLen, b \in BOOLEAN : CallPlay(n, b)
    \/ \E t \in Timeouts : CallWait(t)
    \/ CallStop
    \/ \E t \in Timeouts : CallPtt(t)

Next ==
    \/ Call
    \/ CallerStep
    \/ \E s \in StreamIds : Callback(s)
    \/ EnvToggle
    \/ EnvStart

Spec == Init /\ [][Next]_vars

\* The scheduling the code relies on: the caller thread keeps running while it
\* is inside a call (a finite timeout elapses), and the device keeps invoking
\* the callback of every stream that is active. Nothing obliges the caller to
\* make another call, or the other processes to touch the signal files.
Fairness ==
    /\ WF_vars(CallerStep)
    /\ \A s \in StreamIds : WF_vars(Callback(s))

FairSpec == Init /\ [][Next]_vars /\ Fairness

\* play() and wait() alone, on longer buffers and larger chunk sizes.
MaxBufLen == 5      \* frames in a sample buffer under ChunkSpec
MaxBufChunk == 3    \* buffer_size ranges over 1..MaxBufChunk under ChunkSpec

ChunkInit ==
    /\ buffer_size \in 1..MaxBufChunk
    /\ dsp_enabled \in BOOLEAN
    /\ dsp_chain = FALSE
    /\ audio_queue = [isNone |-> TRUE, items |-> <<>>]
    /\ stream = 0
    /\ playback_complete = FALSE
    /\ playback_error = 0
    /\ streams = [s \in StreamIds |-> "unopened"]
    /\ toggle_file = FALSE
    /\ start_file = FALSE
    /\ pc = "idle"
    /\ op = "none"
    /\ nplays = 0
    /\ samples = Buffer(0, FALSE)
    /\ dsp_failed = FALSE
    /\ idx = 0
    /\ blocking = FALSE
    /\ timeout = "None"
    /\ ptt_interrupted = FALSE
    /\ ptt_seen = "none"
    /\ after_play = FALSE
    /\ after_stop = FALSE
    /\ ret = NoReturn
    /\ enqueued = <<>>
    /\ dequeued = <<>>
    /\ sets = 0
    /\ last_cb = NoCallback
    /\ limiter = NewLimiter(0)
    /\ last_process = NoProcess
    /\ default_chain = NoChain
    /\ dsp_users = NoUsers
    /\ last_chain = NoChainCall
    /\ chain_ops = 0
    /\ compressor = NewCompressor
    /\ last_compress = NoCompress
    /\ leveler = NewLeveler
    /\ last_level = NoLevel
    /\ stage_calls = 0
    /\ ptt_client = NewClient
    /\ ptt_threads = NoThreads
    /\ ptt_caller = NoCaller

ChunkNext ==
    \/ \E n \in 0..MaxBufLen, b \in BOOLEAN : CallPlay(n, b)
    \/ PlayNewQueue
    \/ PlayPut
    \/ PlayPutEnd
    \/ PlayOpen
    \/ \E t \in Timeouts : CallWait(t)
    \/ WaitDone
    \/ \E s \in StreamIds : Callback(s)

ChunkSpec == ChunkInit /\ [][ChunkNext]_vars

(***************************************************************************)
(* Limiter (src/voice_mode/dsp.py). Sample values, the linear ceiling, the *)
(* release coefficient and the gains are rationals [n, d] in lowest terms  *)
(* with d > 0, and the arithmetic on them is exact.                        *)
(***************************************************************************)

MaxBlock == 2       \* samples in one process() call
MaxSample == 2      \* sample values range over -MaxSample..MaxSample
MaxLookahead == 1   \* lookahead_samples ranges over 0..MaxLookahead
MaxCeil == 2        \* the linear ceiling ranges over k/2, k in 1..MaxCeil

RECURSIVE GCD(_, _)
GCD(a, b) == IF b = 0 THEN a ELSE GCD(b, a % b)

Abs(x) == IF x < 0 THEN -x ELSE x

Rat(n, d) == LET g == GCD(Abs(n), d) IN [n |-> n \div g, d |-> d \div g]
RatMul(x, y) == Rat(x.n * y.n, x.d * y.d)
RatDiv(x, y) == Rat(x.n * y.d, x.d * y.n)
RatAdd(x, y) == Rat(x.n * y.d + y.n * x.d, x.d * y.d)
RatSub(x, y) == Rat(x.n * y.d - y.n * x.d, x.d * y.d)
RatLess(x, y) == x.n * y.d < y.n * x.d
RatAbs(x) == [n |-> Abs(x.n), d |-> x.d]

\* peak = np.max(np.abs(buffer[i:i + lookahead + 1])) for the i-th sample
\* (counted from 1) of a block of rationals. The block sits `lookahead` places into the zeroed
\* buffer, so the window holds the samples i - lookahead .. i of the block,
\* and zeros for the places before the block.
Peak(block, i, lookahead) ==
    LET lo == IF i - lookahead < 1 THEN 1 ELSE i - lookahead
        window == {RatAbs(block[j]) : j \in lo..i}
    IN  CHOOSE p \in window : \A q \in window : ~RatLess(p, q)

\* Mutant of LimiterStep: the gain is smoothed on the way down too.
LimiterStep_SmoothAttack(st, peak, sample, ceiling, release_coef) ==
    LET target == IF RatLess(ceiling, RatMul(peak, st.gain))
                  THEN RatDiv(ceiling, peak)
                  ELSE st.gain_target
        gain == RatAdd(target, RatMul(release_coef, RatSub(st.gain, target)))
    IN  [gain |-> gain, gain_target |-> target,
         out |-> RatMul(sample, gain)]

\* One pass of the loop of Limiter.process.
LimiterStep(st, peak, sample, ceiling, release_coef) ==
    LET target == IF RatLess(ceiling, RatMul(peak, st.gain))
                  THEN RatDiv(ceiling, peak)
                  ELSE st.gain_target
        gain == IF RatLess(target, st.gain)
                THEN target
                ELSE RatAdd(target,
                            RatMul(release_coef, RatSub(st.gain, target)))
    IN  [gain |-> gain, gain_target |-> target,
         out |-> RatMul(sample, gain)]

\* The loop of Limiter.process from sample i on; st carries gain,
\* gain_target, the output so far and the gain applied to each sample.
RECURSIVE LimiterRun(_, _, _, _, _, _)
LimiterRun(st, block, i, lookahead, ceiling, release_coef) ==
    IF i > Len(block) THEN st
    ELSE LET r == LimiterStep(st, Peak(block, i, lookahead), block[i],
                              ceiling, release_coef)
         IN  LimiterRun([gain |-> r.gain, gain_target |-> r.gain_target,
                         gains |-> Append(st.gains, r.gain),
                         output |-> Append(st.output, r.out)],
                        block, i + 1, lookahead, ceiling, release_coef)

playerVars == <<buffer_size, dsp_enabled, fileVars, fieldVars, streams,
                histVars, callerVars>>

\* A block of integer sample values as a block of rationals.
ToRat(block) == [i \in DOMAIN block |-> Rat(block[i], 1)]

\* Limiter.process(samples, ceiling_db, release_ms)
LimiterProcess(block, ceiling, release_coef) ==
    /\ LET r == LimiterRun([gain |-> limiter.gain,
                            gain_target |-> limiter.gain_target,
                            gains |-> <<>>, output |-> <<>>],
                           ToRat(block), 1, limiter.lookahead_samples,
                           ceiling,
                           release_coef)
       IN  /\ limiter' = [limiter EXCEPT !.gain = r.gain,
                                         !.gain_target = r.gain_target]
           /\ last_process' = [ceiling |-> ceiling, input |-> ToRat(block),
                               gains |-> r.gains, output |-> r.output]
    /\ UNCHANGED <<playerVars, stageVars, clientVars, dspVars>>

Blocks == UNION {[1..n -> -MaxSample..MaxSample] : n \in 0..MaxBlock}

\* db_to_linear(ceiling_db): positive
Ceilings == {Rat(k, 2) : k \in 1..MaxCeil}

\* np.exp(-1.0 / (release_ms / 1000.0 * sample_rate)): strictly between 0 and 1
ReleaseCoefs == {Rat(1, 2), Rat(3, 4)}

LimiterInit ==
    /\ buffer_size = 1
    /\ dsp_enabled = TRUE
    /\ dsp_chain = FALSE
    /\ audio_queue = [isNone |-> TRUE, items |-> <<>>]
    /\ stream = 0
    /\ playback_complete = FALSE
    /\ playback_error = 0
    /\ streams = [s \in StreamIds |-> "unopened"]
    /\ toggle_file = FALSE
    /\ start_file = FALSE
    /\ pc = "idle"
    /\ op = "none"
    /\ nplays = 0
    /\ samples = Buffer(0, FALSE)
    /\ dsp_failed = FALSE
    /\ idx = 0
    /\ blocking = FALSE
    /\ timeout = "None"
    /\ ptt_interrupted = FALSE
    /\ ptt_seen = "none"
    /\ after_play = FALSE
    /\ after_stop = FALSE
    /\ ret = NoReturn
    /\ enqueued = <<>>
    /\ dequeued = <<>>
    /\ sets = 0
    /\ last_cb = NoCallback
    /\ limiter \in {NewLimiter(l) : l \in 0..MaxLookahead}
    /\ last_process = NoProcess
    /\ default_chain = NoChain
    /\ dsp_users = NoUsers
    /\ last_chain = NoChainCall
    /\ chain_ops = 0
    /\ compressor = NewCompressor
    /\ last_compress = NoCompress
    /\ leveler = NewLeveler
    /\ last_level = NoLevel
    /\ stage_calls = 0
    /\ ptt_client = NewClient
    /\ ptt_threads = NoThreads
    /\ ptt_caller = NoCaller

LimiterNext ==
    \E b \in Blocks, c \in Ceilings, rc \in ReleaseCoefs :
        LimiterProcess(b, c, rc)

LimiterSpec == LimiterInit /\ [][LimiterNext]_vars

(***************************************************************************)
(* DSPChain (src/voice_mode/dsp.py). The arithmetic of the EQ, the leveler *)
(* and the compressor (Butterworth filters, exp, log10) is outside the     *)
(* rationals: each of the three is taken to scale the block it is given by *)
(* a factor that is not known, any of StageGains. The limiter, the         *)
(* pre-gain and the output gain are computed.                              *)
(***************************************************************************)

MaxChainOps == 4    \* chain operations (creation, update, process) in a run

\* db_to_linear, for levels in steps of a factor of two
DbToLinear(db) == IF db >= 0 THEN Rat(2 ^ db, 1) ELSE Rat(1, 2 ^ (0 - db))

\* samples * factor
Scale(block, factor) == [i \in DOMAIN block |-> RatMul(block[i], factor)]

StageGains == {Rat(1, 2), Rat(2, 1)}

\* np.exp(-1.0 / (limiter_release_ms / 1000.0 * sample_rate)) in the chain
ChainReleaseCoef == Rat(1, 2)

\* Mutant of StageOrder: the limiter runs before the compressor.
StageOrder_LimiterEarly ==
    <<"pre_gain", "eq", "leveler", "limiter", "compressor", "output_gain">>

\* The order of the steps in the body of DSPChain.process
StageOrder ==
    <<"pre_gain", "eq", "leveler", "compressor", "limiter", "output_gain">>

\* Mutant of StageActive: a positive output gain is applied too.
StageActive_AnyOutputGain(stage, config) ==
    CASE stage = "pre_gain" -> config.pre_gain_db # 0
      [] stage = "eq" -> config.eq_low_gain_db # 0
      [] stage = "leveler" -> config.leveler_enabled
      [] stage = "compressor" -> config.compressor_enabled
      [] stage = "limiter" -> config.limiter_enabled
      [] stage = "output_gain" -> config.output_gain_db # 0

\* Mutant of StageActive: the compressor runs whatever compressor_enabled is.
StageActive_CompressorAlways(stage, config) ==
    CASE stage = "pre_gain" -> config.pre_gain_db # 0
      [] stage = "eq" -> config.eq_low_gain_db # 0
      [] stage = "leveler" -> config.leveler_enabled
      [] stage = "compressor" -> TRUE
      [] stage = "limiter" -> config.limiter_enabled
      [] stage = "output_gain" -> config.output_gain_db < 0

\* The condition under which each step of DSPChain.process runs (scipy
\* being available)
StageActive(stage, config) ==
    CASE stage = "pre_gain" -> config.pre_gain_db # 0
      [] stage = "eq" -> config.eq_low_gain_db # 0
      [] stage = "leveler" -> config.leveler_enabled
      [] stage = "compressor" -> config.compressor_enabled
      [] stage = "limiter" -> config.limiter_enabled
      [] stage = "output_gain" -> config.output_gain_db < 0

\* One step of DSPChain.process on the buffer buf: the chain after it and the
\* buffer it hands on. gains holds the unknown factors of this call.
StageApply(stage, ch, buf, gains) ==
    CASE stage = "pre_gain" ->
            [chain |-> ch, out |-> Scale(buf, DbToLinear(ch.config.pre_gain_db))]
      [] stage = "eq" ->
            [chain |-> ch, out |-> Scale(buf, gains.eq)]
      [] stage = "leveler" ->
            [chain |-> [ch EXCEPT !.leveler.seen = @ + Len(buf)],
             out |-> Scale(buf, gains.leveler)]
      [] stage = "compressor" ->
            [chain |-> [ch EXCEPT !.compressor.seen = @ + Len(buf)],
             out |-> Scale(buf, gains.compressor)]
      [] stage = "limiter" ->
            LET r == LimiterRun([gain |-> ch.limiter.gain,
                                 gain_target |-> ch.limiter.gain_target,
                                 gains |-> <<>>, output |-> <<>>],
                                buf, 1, ch.limiter.lookahead_samples,
                                DbToLinear(ch.config.limiter_ceiling_db),
                                ChainReleaseCoef)
            IN  [chain |-> [ch EXCEPT !.limiter.gain = r.gain,
                                      !.limiter.gain_target = r.gain_target],
                 out |-> r.output]
      [] stage = "output_gain" ->
            [chain |-> ch,
             out |-> Scale(buf, DbToLinear(ch.config.output_gain_db))]

\* The steps of DSPChain.process from the k-th on; st carries the chain, the
\* buffer and the record of the steps that ran.
RECURSIVE RunStages(_, _, _)
RunStages(st, k, gains) ==
    IF k > Len(StageOrder) THEN st
    ELSE LET stage == StageOrder[k]
         IN  IF StageActive(stage, st.chain.config)
             THEN LET r == StageApply(stage, st.chain, st.buf, gains)
                  IN  RunStages([chain |-> r.chain, buf |-> r.out,
                                 trace |-> Append(st.trace,
                                                  [stage |-> stage,
                                                   in |-> st.buf,
                                                   out |-> r.out])],
                                k + 1, gains)
             ELSE RunStages(st, k + 1, gains)

\* Mutant of ChainBypassed: the enabled flag is not looked at.
ChainBypassed_Never(config) == FALSE

\* if not self.config.enabled: return samples
ChainBypassed(config) == ~config.enabled

\* DSPChain.process(samples): the chain after the call, the steps that ran
\* and the block returned.
ProcessResult(ch, block, gains) ==
    IF ChainBypassed(ch.config)
    THEN [chain |-> ch, buf |-> block, trace |-> <<>>]
    ELSE RunStages([chain |-> ch, buf |-> block, trace |-> <<>>], 1, gains)

ChainBlocks == {<<>>} \cup [1..MaxBlock -> {-MaxSample, 1}]

UnknownGains == [eq : StageGains, leveler : StageGains, compressor : StageGains]

\* min(0.0, DSP_OUTPUT_GAIN_DB) in load_config_from_voicemode
ClampOutputGain(db) == IF db < 0 THEN db ELSE 0

\* load_config_from_voicemode: the settings of the voicemode config module,
\* the output gain clamped
LoadedConfigs ==
    {[DefaultConfig EXCEPT !.eq_low_gain_db = g,
                           !.output_gain_db = ClampOutputGain(o)] :
        g \in {-1, 0}, o \in {-1, 0, 1}}

\* Every config that differs from c in one field
ConfigChanges(c) ==
    {[c EXCEPT !.enabled = ~c.enabled],
     [c EXCEPT !.leveler_enabled = ~c.leveler_enabled],
     [c EXCEPT !.compressor_enabled = ~c.compressor_enabled],
     [c EXCEPT !.limiter_enabled = ~c.limiter_enabled]}
    \cup {[c EXCEPT !.sample_rate = r] : r \in 1..MaxRate}
    \cup {[c EXCEPT !.pre_gain_db = g] : g \in {0, 1}}
    \cup {[c EXCEPT !.eq_low_gain_db = g] : g \in {-1, 0}}
    \cup {[c EXCEPT !.eq_low_freq = f] : f \in {1, 2}}
    \cup {[c EXCEPT !.eq_high_freq = f] : f \in {3, 4}}
    \cup {[c EXCEPT !.limiter_ceiling_db = g] : g \in {-1, 0}}
    \cup {[c EXCEPT !.output_gain_db = g] : g \in {-1, 0, 1}}

\* get_default_chain(), the chain not yet made
GetDefaultChain(config) ==
    /\ ~default_chain.created
    /\ chain_ops < MaxChainOps
    /\ chain_ops' = chain_ops + 1
    /\ default_chain' = NewChain(config)
    /\ UNCHANGED <<playerVars, stageVars, clientVars, limiter,
                   last_process, dsp_users, last_chain>>

\* Mutant of NeedsReinit: every update reinitializes.
NeedsReinit_Always(old, new) == TRUE

\* if config.sample_rate != self.config.sample_rate
NeedsReinit(old, new) == new.sample_rate # old.sample_rate

\* DSPChain.update_config(config)
UpdateConfig(config) ==
    /\ default_chain.created
    /\ chain_ops < MaxChainOps
    /\ chain_ops' = chain_ops + 1
    /\ default_chain' = IF NeedsReinit(default_chain.config, config)
                        THEN NewChain(config)
                        ELSE [default_chain EXCEPT !.config = config]
    /\ UNCHANGED <<playerVars, stageVars, clientVars, limiter,
                   last_process, dsp_users, last_chain>>

\* DSPChain.process(samples), called on the chain directly
ChainProcess(block, gains) ==
    /\ default_chain.created
    /\ chain_ops < MaxChainOps
    /\ chain_ops' = chain_ops + 1
    /\ LET r == ProcessResult(default_chain, ToRat(block), gains)
       IN  /\ default_chain' = r.chain
           /\ last_chain' = [seq |-> chain_ops + 1, by |-> 0,
                             rate |-> default_chain.config.sample_rate,
                             config |-> default_chain.config,
                             input |-> ToRat(block), trace |-> r.trace,
                             output |-> r.buf]
    /\ UNCHANGED <<playerVars, stageVars, clientVars, limiter,
                   last_process, dsp_users>>

ChainInit ==
    /\ LimiterInit
    /\ limiter = NewLimiter(0)

ChainNext ==
    \/ \E c \in LoadedConfigs : GetDefaultChain(c)
    \/ \E c \in ConfigChanges(default_chain.config) : UpdateConfig(c)
    \/ \E b \in ChainBlocks, g \in UnknownGains : ChainProcess(b, g)

ChainSpec == ChainInit /\ [][ChainNext]_vars

(***************************************************************************)
(* The DSP pass of play() (src/voice_mode/audio_player.py, lines 129-140)  *)
(* of several players, each on its own thread, on the chain that           *)
(* get_default_chain() hands to all of them.                               *)
(***************************************************************************)

\* Lines 132-137 and the call at line 138: a player without a chain takes
\* the default chain, made on first use, and sets it to the rate of this
\* play() if it has another; a player that has its chain goes straight into
\* process().
PlayDspEnter(p, sample_rate, loaded) ==
    /\ dsp_users[p].pc = "idle"
    /\ chain_ops < MaxPlays
    /\ chain_ops' = chain_ops + 1
    /\ LET got == IF default_chain.created THEN default_chain
                  ELSE NewChain(loaded)
           ch == IF dsp_users[p].dsp_chain THEN default_chain
                 ELSE IF got.config.sample_rate # sample_rate
                      THEN NewChain([got.config EXCEPT
                                        !.sample_rate = sample_rate])
                      ELSE got
       IN  /\ default_chain' = ch
           /\ dsp_users' = [dsp_users EXCEPT
                               ![p] = [dsp_chain |-> TRUE, pc |-> "in_process",
                                       rate |-> sample_rate, entered |-> ch]]
    /\ UNCHANGED <<playerVars, stageVars, clientVars, limiter,
                   last_process, last_chain>>

\* The stage objects a process() call works on when other threads have been
\* at the chain since it began: the chain's present ones, or the ones it
\* found on entry, whose state it then writes back over theirs.
RacedChains(p) ==
    {default_chain,
     [default_chain EXCEPT !.leveler = dsp_users[p].entered.leveler,
                           !.compressor = dsp_users[p].entered.compressor,
                           !.limiter = dsp_users[p].entered.limiter]}

\* self.dsp_chain.process(samples) returns to play()
PlayDspProcess(p, block, gains) ==
    /\ dsp_users[p].pc = "in_process"
    /\ \E ch \in RacedChains(p) :
          LET r == ProcessResult(ch, ToRat(block), gains)
          IN  /\ default_chain' = r.chain
              /\ last_chain' = [seq |-> last_chain.seq + 1, by |-> p,
                                rate |-> dsp_users[p].rate,
                                config |-> ch.config,
                                input |-> ToRat(block), trace |-> r.trace,
                                output |-> r.buf]
    /\ dsp_users' = [dsp_users EXCEPT ![p].pc = "idle",
                                      ![p].entered = NoChain]
    /\ UNCHANGED <<playerVars, stageVars, clientVars, limiter,
                   last_process, chain_ops>>

SharedChainNext ==
    \/ \E p \in Players, r \in 1..MaxRate, c \in LoadedConfigs :
          PlayDspEnter(p, r, c)
    \/ \E p \in Players, b \in ChainBlocks, g \in UnknownGains :
          PlayDspProcess(p, b, g)

SharedChainSpec == ChainInit /\ [][SharedChainNext]_vars

(***************************************************************************)
(* Compressor and LA2ALeveler (src/voice_mode/dsp.py), on rationals. Levels *)
(* in dB are counted in steps of 20 * log10(2) dB (a factor of two). Between *)
(* two powers of two log and exp are replaced by the chord: LinearToDb and  *)
(* RatDbToLinear are exact at the powers of two, increasing, and inverse to *)
(* each other, as the functions they stand for are. The coefficients the    *)
(* code computes with np.exp are values strictly between 0 and 1.           *)
(***************************************************************************)

MaxStageCalls == 2  \* process() calls on a compressor or leveler in a run

Zero == Rat(0, 1)

RatLeq(x, y) == ~RatLess(y, x)

\* The k with 2^k <= x < 2^(k+1), for x > 0
RECURSIVE FloorLog2(_)
FloorLog2(x) ==
    IF RatLeq(Rat(2, 1), x) THEN 1 + FloorLog2(RatDiv(x, Rat(2, 1)))
    ELSE IF RatLess(x, Rat(1, 1)) THEN FloorLog2(RatMul(x, Rat(2, 1))) - 1
    ELSE 0

\* The largest integer that is at most q
Floor(q) == q.n \div q.d

\* linear_to_db: -100 dB (50/3 steps, nearly) for linear <= 0
LinearToDb(linear) ==
    IF linear.n <= 0 THEN Rat(-50, 3)
    ELSE LET k == FloorLog2(linear)
         IN  RatAdd(Rat(k, 1),
                    RatSub(RatDiv(linear, DbToLinear(k)), Rat(1, 1)))

\* db_to_linear, for a level that need not be a whole number of steps
RatDbToLinear(db) ==
    LET k == Floor(db)
    IN  RatMul(DbToLinear(k), RatAdd(Rat(1, 1), RatSub(db, Rat(k, 1))))

\* Mutant of CompressorStep: the threshold is compared with the envelope
\* as it was before this sample.
CompressorStep_StaleEnvelope(st, sample, args) ==
    LET threshold == args.threshold
        ratio == args.ratio
        attack_coef == args.attack_coef
        release_coef == args.release_coef
        makeup == args.makeup
        sample_abs == RatAbs(sample)
        coef == IF RatLess(st.envelope, sample_abs) THEN attack_coef
                ELSE release_coef
        envelope == RatAdd(sample_abs,
                           RatMul(coef, RatSub(st.envelope, sample_abs)))
        gain_reduction ==
            IF RatLess(threshold, st.envelope)
            THEN LET over_db == LinearToDb(RatDiv(st.envelope, threshold))
                     reduction_db ==
                         RatMul(over_db,
                                RatSub(Rat(1, 1), RatDiv(Rat(1, 1), ratio)))
                 IN  RatDbToLinear(RatSub(Zero, reduction_db))
            ELSE Rat(1, 1)
    IN  [envelope |-> envelope, gain_reduction |-> gain_reduction,
         out |-> RatMul(RatMul(sample, gain_reduction), makeup)]

\* One pass of the loop of Compressor.process: the envelope follower, the
\* gain reduction and the output sample. args holds what process() was given,
\* the levels and times already converted (lines 212-216).
CompressorStep(st, sample, args) ==
    LET threshold == args.threshold
        ratio == args.ratio
        attack_coef == args.attack_coef
        release_coef == args.release_coef
        makeup == args.makeup
        sample_abs == RatAbs(sample)
        coef == IF RatLess(st.envelope, sample_abs) THEN attack_coef
                ELSE release_coef
        envelope == RatAdd(sample_abs,
                           RatMul(coef, RatSub(st.envelope, sample_abs)))
        gain_reduction ==
            IF RatLess(threshold, envelope)
            THEN LET over_db == LinearToDb(RatDiv(envelope, threshold))
                     reduction_db ==
                         RatMul(over_db,
                                RatSub(Rat(1, 1), RatDiv(Rat(1, 1), ratio)))
                 IN  RatDbToLinear(RatSub(Zero, reduction_db))
            ELSE Rat(1, 1)
    IN  [envelope |-> envelope, gain_reduction |-> gain_reduction,
         out |-> RatMul(RatMul(sample, gain_reduction), makeup)]

\* The loop of Compressor.process from sample i on; st carries the
\* compressor's state and, per sample, the envelope after its update, the
\* gain reduction and the output.
RECURSIVE CompressorRun(_, _, _, _)
CompressorRun(st, block, i, args) ==
    IF i > Len(block) THEN st
    ELSE LET r == CompressorStep(st, block[i], args)
         IN  CompressorRun([envelope |-> r.envelope,
                            gain_reduction |-> r.gain_reduction,
                            envelopes |-> Append(st.envelopes, r.envelope),
                            gains |-> Append(st.gains, r.gain_reduction),
                            output |-> Append(st.output, r.out)],
                           block, i + 1, args)

\* Compressor.process(samples, threshold_db, ratio, attack_ms, release_ms,
\* makeup_db)
CompressorProcess(block, args) ==
    /\ stage_calls < MaxStageCalls
    /\ stage_calls' = stage_calls + 1
    /\ LET r == CompressorRun([envelope |-> compressor.envelope,
                               gain_reduction |-> compressor.gain_reduction,
                               envelopes |-> <<>>, gains |-> <<>>,
                               output |-> <<>>],
                              ToRat(block), 1, args)
       IN  /\ compressor' = [envelope |-> r.envelope,
                             gain_reduction |-> r.gain_reduction]
           /\ last_compress' = [seq |-> stage_calls + 1,
                                threshold |-> args.threshold,
                                ratio |-> args.ratio,
                                makeup |-> args.makeup,
                                input |-> ToRat(block),
                                envelope |-> r.envelopes,
                                gains |-> r.gains,
                                output |-> r.output]
    /\ UNCHANGED <<playerVars, chainVars, clientVars, leveler, last_level>>

\* threshold_db in {-1, 0}, ratio in {1/2, 1, 2}, makeup_db in {0, 1}
CompressorArgs ==
    [threshold : {DbToLinear(-1), DbToLinear(0)},
     ratio : {Rat(1, 2), Rat(1, 1), Rat(2, 1)},
     attack_coef : {Rat(1, 2)},
     release_coef : {Rat(1, 2)},
     makeup : {DbToLinear(0), DbToLinear(1)}]

CompressorNext ==
    \E b \in Blocks, a \in CompressorArgs : CompressorProcess(b, a)

CompressorSpec == ChainInit /\ [][CompressorNext]_vars

\* One pass of the loop of LA2ALeveler.process: the optical cell, the gain
\* reduction and the output sample. The release coefficient, which the code
\* computes from the cell with np.exp, is a value between 0 and 1 given in
\* args.
LevelerStep(st, sample, args) ==
    LET sample_abs == RatAbs(sample)
        coef == IF RatLess(st.optical_cell, sample_abs) THEN args.attack_coef
                ELSE args.release_coef
        optical_cell ==
            RatAdd(sample_abs,
                   RatMul(coef, RatSub(st.optical_cell, sample_abs)))
        reduction_amount ==
            IF RatLess(optical_cell, Rat(1, 1)) THEN optical_cell
            ELSE Rat(1, 1)
        gain_reduction ==
            IF RatLess(Rat(1, 10), optical_cell)
            THEN RatSub(Rat(1, 1),
                        RatMul(reduction_amount,
                               RatSub(Rat(1, 1), args.target_reduction)))
            ELSE RatAdd(Rat(1, 1),
                        RatMul(Rat(9, 10),
                               RatSub(st.gain_reduction, Rat(1, 1))))
    IN  [optical_cell |-> optical_cell, gain_reduction |-> gain_reduction,
         out |-> RatMul(RatMul(sample, gain_reduction), args.output_gain)]

\* The loop of LA2ALeveler.process from sample i on
RECURSIVE LevelerRun(_, _, _, _)
LevelerRun(st, block, i, args) ==
    IF i > Len(block) THEN st
    ELSE LET r == LevelerStep(st, block[i], args)
         IN  LevelerRun([optical_cell |-> r.optical_cell,
                         gain_reduction |-> r.gain_reduction,
                         output |-> Append(st.output, r.out)],
                        block, i + 1, args)

\* Mutant of LevelerIsPureGain: only a negative setting makes a pure gain.
LevelerIsPureGain_Negative(peak_reduction_db) == peak_reduction_db < 0

\* if peak_reduction_db <= 0
LevelerIsPureGain(peak_reduction_db) == peak_reduction_db <= 0

\* LA2ALeveler.process(samples, peak_reduction_db, output_gain_db)
LevelerProcess(block, peak_reduction_db, output_gain_db, coefs) ==
    /\ stage_calls < MaxStageCalls
    /\ stage_calls' = stage_calls + 1
    /\ LET r == IF LevelerIsPureGain(peak_reduction_db)
                THEN [optical_cell |-> leveler.optical_cell,
                      gain_reduction |-> leveler.gain_reduction,
                      output |-> Scale(ToRat(block),
                                       DbToLinear(output_gain_db))]
                ELSE LevelerRun(
                         [optical_cell |-> leveler.optical_cell,
                          gain_reduction |-> leveler.gain_reduction,
                          output |-> <<>>],
                         ToRat(block), 1,
                         [target_reduction |->
                              DbToLinear(0 - peak_reduction_db),
                          output_gain |-> DbToLinear(output_gain_db),
                          attack_coef |-> coefs.attack_coef,
                          release_coef |-> coefs.release_coef])
       IN  /\ leveler' = [optical_cell |-> r.optical_cell,
                          gain_reduction |-> r.gain_reduction]
           /\ last_level' = [seq |-> stage_calls + 1,
                             peak_reduction_db |-> peak_reduction_db,
                             output_gain_db |-> output_gain_db,
                             input |-> ToRat(block),
                             output |-> r.output]
    /\ UNCHANGED <<playerVars, chainVars, clientVars, compressor,
                   last_compress>>

\* np.exp(-1.0 / (0.010 * sample_rate)) and the release coefficient
LevelerCoefs == [attack_coef : {Rat(1, 2)}, release_coef : {Rat(1, 2)}]

LevelerNext ==
    \E b \in Blocks, p \in {-1, 0, 1}, g \in {0, 1}, c \in LevelerCoefs :
        LevelerProcess(b, p, g, c)

LevelerSpec == ChainInit /\ [][LevelerNext]_vars

(***************************************************************************)
(* PTTClient (src/voice_mode/ptt_client.py): subscribe(), unsubscribe() and *)
(* the PTTSubscriber threads. One thread calls the client; the daemon at    *)
(* the other end of the socket answers, sends events, stays silent or goes  *)
(* away as it pleases.                                                      *)
(***************************************************************************)

MaxClientCalls == 4     \* subscribe() and unsubscribe() calls in a run

Callbacks == {1, 2}

\* The threads inside _subscriber_loop
InLoop ==
    {t \in ThreadIds : ptt_threads[t] \in {"outer", "connect", "inner", "recv"}}

\* The next thread subscribe() would start, 0 when the bound is reached
NextThread ==
    IF \E t \in ThreadIds : ptt_threads[t] = "unstarted"
    THEN CHOOSE t \in ThreadIds :
             /\ ptt_threads[t] = "unstarted"
             /\ \A u \in ThreadIds : ptt_threads[u] = "unstarted" => t <= u
    ELSE 0

\* Mutant of SubscribeRejects: the running flag is not looked at.
SubscribeRejects_Never(running) == FALSE

\* if self._subscriber_running: raise RuntimeError("Already subscribed")
SubscribeRejects(running) == running

\* PTTClient.subscribe(callback)
Subscribe(callback) ==
    /\ ptt_caller.pc = "idle"
    /\ ptt_caller.calls < MaxClientCalls
    /\ IF SubscribeRejects(ptt_client.running)
       THEN /\ ptt_caller' = [pc |-> "idle", calls |-> ptt_caller.calls + 1,
                              op |-> "subscribe", arg |-> callback,
                              kind |-> "raised"]
            /\ UNCHANGED <<ptt_client, ptt_threads>>
       ELSE /\ NextThread # 0
            /\ ptt_client' = [ptt_client EXCEPT !.callback = callback,
                                                !.running = TRUE,
                                                !.thread = NextThread]
            /\ ptt_threads' = [ptt_threads EXCEPT ![NextThread] = "outer"]
            /\ ptt_caller' = [pc |-> "idle", calls |-> ptt_caller.calls + 1,
                              op |-> "subscribe", arg |-> callback,
                              kind |-> "returned"]
    /\ UNCHANGED <<playerVars, chainVars, stageVars>>

\* unsubscribe(): self._subscriber_running = False
UnsubscribeSet ==
    /\ ptt_caller.pc = "idle"
    /\ ptt_caller.calls < MaxClientCalls
    /\ ptt_client' = [ptt_client EXCEPT !.running = FALSE]
    /\ ptt_caller' = [pc |-> "unsub_close", calls |-> ptt_caller.calls + 1,
                      op |-> "unsubscribe", arg |-> 0, kind |-> "none"]
    /\ UNCHANGED <<playerVars, chainVars, stageVars, ptt_threads>>

\* unsubscribe(): the socket, if there is one, is closed
UnsubscribeClose ==
    /\ ptt_caller.pc = "unsub_close"
    /\ ptt_client' = [ptt_client EXCEPT
                         !.socket = IF @ = "none" THEN @ ELSE "closed"]
    /\ ptt_caller' = IF ptt_client.thread # 0
                     THEN [ptt_caller EXCEPT !.pc = "unsub_join"]
                     ELSE [ptt_caller EXCEPT !.pc = "idle",
                                             !.kind = "returned"]
    /\ UNCHANGED <<playerVars, chainVars, stageVars, ptt_threads>>

\* self._subscriber_thread.join(timeout=1.0) comes back when the thread has
\* ended, or after a second while the thread is in a socket call that can
\* last longer (connect, or recv with its timeout of 30 s).
JoinReturns(thread_pc) == thread_pc \in {"exited", "connect", "recv"}

\* unsubscribe(): the join comes back and the call returns
UnsubscribeJoin ==
    /\ ptt_caller.pc = "unsub_join"
    /\ JoinReturns(ptt_threads[ptt_client.thread])
    /\ ptt_caller' = [ptt_caller EXCEPT !.pc = "idle", !.kind = "returned"]
    /\ UNCHANGED <<playerVars, chainVars, stageVars, ptt_client, ptt_threads>>

\* _subscriber_loop: while self._subscriber_running
ThreadOuter(t) ==
    /\ ptt_threads[t] = "outer"
    /\ ptt_threads' = [ptt_threads EXCEPT
                          ![t] = IF ptt_client.running THEN "connect"
                                 ELSE "exited"]
    /\ UNCHANGED <<playerVars, chainVars, stageVars, ptt_client, ptt_caller>>

\* _subscriber_loop: a new socket is put in self._subscriber_socket; connect,
\* SUBSCRIBE and the response. With "OK" the thread goes on to listen; with
\* another response (continue) or an exception the finally clause closes the
\* socket and the outer loop comes round.
ThreadConnect(t, response) ==
    /\ ptt_threads[t] = "connect"
    /\ IF response = "OK"
       THEN /\ ptt_client' = [ptt_client EXCEPT !.socket = "open"]
            /\ ptt_threads' = [ptt_threads EXCEPT ![t] = "inner"]
       ELSE /\ ptt_client' = [ptt_client EXCEPT !.socket = "closed"]
            /\ ptt_threads' = [ptt_threads EXCEPT ![t] = "outer"]
    /\ UNCHANGED <<playerVars, chainVars, stageVars, ptt_caller>>

\* _subscriber_loop: the inner while self._subscriber_running; when it is
\* false the try block ends, the finally clause closes the socket and the
\* outer loop comes round.
ThreadInner(t) ==
    /\ ptt_threads[t] = "inner"
    /\ IF ptt_client.running
       THEN /\ ptt_threads' = [ptt_threads EXCEPT ![t] = "recv"]
            /\ UNCHANGED ptt_client
       ELSE /\ ptt_threads' = [ptt_threads EXCEPT ![t] = "outer"]
            /\ ptt_client' = [ptt_client EXCEPT !.socket = "closed"]
    /\ UNCHANGED <<playerVars, chainVars, stageVars, ptt_caller>>

\* _subscriber_loop: recv(1024) comes back: with data (the events are
\* handled), with socket.timeout (continue), or with nothing or another
\* exception (break, the finally clause, the outer loop).
ThreadRecv(t, outcome) ==
    /\ ptt_threads[t] = "recv"
    /\ IF outcome \in {"data", "timeout"}
       THEN /\ ptt_threads' = [ptt_threads EXCEPT ![t] = "inner"]
            /\ UNCHANGED ptt_client
       ELSE /\ ptt_threads' = [ptt_threads EXCEPT ![t] = "outer"]
            /\ ptt_client' = [ptt_client EXCEPT !.socket = "closed"]
    /\ UNCHANGED <<playerVars, chainVars, stageVars, ptt_caller>>

ClientNext ==
    \/ \E c \in Callbacks : Subscribe(c)
    \/ UnsubscribeSet
    \/ UnsubscribeClose
    \/ UnsubscribeJoin
    \/ \E t \in ThreadIds : ThreadOuter(t)
    \/ \E t \in ThreadIds, r \in {"OK", "other", "exception"} :
          ThreadConnect(t, r)
    \/ \E t \in ThreadIds : ThreadInner(t)
    \/ \E t \in ThreadIds, o \in {"data", "timeout", "break"} :
          ThreadRecv(t, o)

ClientSpec == ChainInit /\ [][ClientNext]_vars

(***************************************************************************)
(* Properties.                                                             *)
(***************************************************************************)

ActiveStreams == {s \in StreamIds : streams[s] = "active"}

\* The stream the last successful OutputStream(...) call made, 0 when none.
LastOpened ==
    LET opened == {s \in StreamIds : streams[s] # "unopened"}
    IN  IF opened = {} THEN 0 ELSE CHOOSE s \in opened : \A u \in opened : u <= s

\* The player holds no stream and the last stream it opened is closed.
TornDown ==
    /\ stream = 0
    /\ LastOpened # 0 => streams[LastOpened] = "closed"

\* C1: at most one output stream opened by the player is active at any time
\* (a play() issued while an earlier stream is active stops that stream first).
C1_OneActiveStream == Cardinality(ActiveStreams) <= 1

\* C2: a play() whose stream fails to open or start raises the error and
\* stores it, and a wait() that follows, with a timeout or with none, comes
\* back raising that same error.
C2_WaitReraises ==
    /\ [](pc = "idle" /\ ret.op = "play" /\ ret.kind = "raised"
            => ret.err # 0 /\ playback_error = ret.err)
    /\ (pc = "wait" /\ op = "wait" /\ playback_error # 0)
         ~> (pc = "idle" /\ ret.op = "wait" /\ ret.kind = "raised"
             /\ ret.err = playback_error)

\* C3: after a play() that started its stream, and with the device invoking
\* the callback, wait(timeout=None) and wait_with_ptt_interrupt(timeout=None)
\* each come back, and when they do the stream is stopped and closed and the
\* player holds no stream.
C3_WaitTerminates ==
    /\ (pc = "wait" /\ op = "wait" /\ timeout = "None" /\ after_play)
         ~> (pc = "idle" /\ ret.op = "wait")
    /\ (op = "ptt" /\ timeout = "None" /\ after_play)
         ~> (pc = "idle" /\ ret.op = "ptt")
    /\ [](pc = "idle" /\ ret.op \in {"wait", "ptt"} => TornDown)

\* C3's case: a wait(None) after a successful play() found the stream active,
\* and came back once the callback had set the flag.
C3_Witness ==
    /\ pc = "idle"
    /\ ret.op = "wait"
    /\ ret.kind = "returned"
    /\ ~ret.timed_out
    /\ sets = 1
    /\ LastOpened # 0
    /\ streams[LastOpened] = "closed"

\* ceil(n / s)
CeilDiv(n, s) == (n + s - 1) \div s

\* The frames of the chunks among a sequence of queue items, in order.
RECURSIVE Frames(_)
Frames(items) ==
    IF items = <<>> THEN <<>>
    ELSE (IF Head(items).kind = "chunk" THEN Head(items).data ELSE <<>>)
         \o Frames(Tail(items))

\* C4: for a buffer of N frames and chunk size S, play() has put on the queue
\* exactly ceil(N/S) chunks, in buffer order, whose frames are the buffer's,
\* every chunk but the last of S frames and the last of 1..S frames, and
\* after them exactly one end marker.
C4_Chunking ==
    pc = "play_open" =>
        LET N == Len(samples.data)
            S == buffer_size
            k == CeilDiv(N, S)
        IN  /\ Len(enqueued) = k + 1
            /\ enqueued[k + 1] = EndMarker
            /\ \A j \in 1..k :
                   /\ enqueued[j].kind = "chunk"
                   /\ j < k => Len(enqueued[j].data) = S
                   /\ j = k => Len(enqueued[j].data) \in 1..S
            /\ Frames(enqueued) = samples.data

\* C4's case: five frames in chunks of two are queued as 2, 2, 1 and the marker.
C4_Witness ==
    /\ pc = "play_open"
    /\ Len(samples.data) = 5
    /\ buffer_size = 2
    /\ Len(enqueued) = 4
    /\ Len(enqueued[3].data) = 1

\* The items of a history of removals.
Items(hist) == [i \in DOMAIN hist |-> hist[i].item]

\* An item whose dequeueing ends the stream: the end marker or a chunk
\* shorter than the frames asked for.
IsFinal(item) == item.kind = "end" \/ Len(item.data) < buffer_size

\* What the callbacks (not stop()'s drain) took off the current queue.
Delivered == SelectSeq(dequeued, LAMBDA d : d.by # 0)

FinalsBy(s) ==
    {i \in DOMAIN dequeued : dequeued[i].by = s /\ IsFinal(dequeued[i].item)}

\* The playback of the latest play() call streams alone and undisturbed: its
\* stream is held, every other stream the player opened is closed, and only
\* that stream's callback has taken items off the queue.
Undisturbed ==
    /\ nplays > 0
    /\ stream = nplays
    /\ streams[stream] \in {"active", "finished"}
    /\ \A s \in StreamIds \ {stream} : streams[s] \in {"unopened", "closed"}
    /\ \A i \in DOMAIN dequeued : dequeued[i].by = stream

\* C5 as stated: in an undisturbed playback, once the callback has consumed
\* every audio chunk the flag has been set exactly once and the stream told
\* to stop.
C5_CompleteAfterLastChunk ==
    (/\ Undisturbed
     /\ Len(Frames(enqueued)) > 0
     /\ Frames(Items(Delivered)) = Frames(enqueued))
        => sets = 1 /\ streams[stream] = "finished"

\* C5 as amended: the flag is set, and the stream told to stop, by the
\* invocation that dequeues a chunk shorter than the frames asked for or the
\* end marker, once per such item and at most once per stream; an invocation
\* that dequeues a full chunk does neither, so a last chunk of full length
\* leaves completion to the invocation that dequeues the end marker.
C5_CompleteOnFinalItem ==
    /\ sets = Cardinality({i \in DOMAIN dequeued :
                              dequeued[i].by # 0 /\ IsFinal(dequeued[i].item)})
    /\ \A s \in StreamIds :
           /\ Cardinality(FinalsBy(s)) <= 1
           /\ FinalsBy(s) # {} => streams[s] \in {"finished", "closed"}
    /\ Undisturbed =>
           /\ sets <= 1
           /\ sets = 1 <=> streams[stream] = "finished"
           /\ sets = 1 => playback_complete

\* C5's case: the final partial chunk was consumed, the flag set once and the
\* stream told to stop, the end marker still queued.
C5_Witness ==
    /\ Undisturbed
    /\ audio_queue.items = <<EndMarker>>
    /\ Frames(Items(Delivered)) = Frames(enqueued)
    /\ sets = 1
    /\ streams[stream] = "finished"

\* C6: items leave the queue in the order play() put them on it, so the
\* callback delivers the chunks in that order, and the end marker, once a
\* callback has dequeued it, is the last item dequeued for that playback.
C6_DeliveryOrder ==
    /\ Items(dequeued) \o audio_queue.items = enqueued
    /\ \A i \in DOMAIN dequeued :
           dequeued[i].item = EndMarker =>
               i = Len(dequeued) /\ audio_queue.items = <<>>

\* C6's case: two chunks, then the end marker, all taken by callbacks.
C6_Witness ==
    /\ Len(Delivered) = 3
    /\ Len(dequeued) = 3
    /\ dequeued[1].item.kind = "chunk"
    /\ dequeued[2].item.kind = "chunk"
    /\ dequeued[3].item = EndMarker

\* C7: a callback invocation that finds the queue empty (a step that is
\* neither the caller's nor a signal file's, taken with the queue empty)
\* writes silence and leaves the completion flag, the streams, the stored
\* error and the queue as they were: the stream stays active.
C7_UnderrunIsSilent ==
    [][(/\ audio_queue.items = <<>>
        /\ UNCHANGED <<callerVars, fileVars>>)
          => /\ last_cb'.kind = "underrun"
             /\ last_cb'.out = Zeros(buffer_size)
             /\ streams[last_cb'.stream] = "active"
             /\ UNCHANGED <<playback_complete, streams, playback_error,
                            audio_queue, sets, dequeued>>]_vars

\* C7's case: the callback of an active stream found the queue empty.
C7_Witness ==
    /\ last_cb.kind = "underrun"
    /\ streams[last_cb.stream] = "active"
    /\ audio_queue.items = <<>>
    /\ ~playback_complete
    /\ playback_error = 0

\* C8: when wait() returns or raises, after the flag or after the timeout,
\* the stream is stopped and closed and the player holds none; it raises
\* exactly when an error is stored (never for the timeout alone), and raises
\* that error.
C8_WaitTearsDown ==
    (pc = "idle" /\ ret.op = "wait") =>
        /\ TornDown
        /\ ret.kind = "raised" <=> playback_error # 0
        /\ ret.kind = "raised" => ret.err = playback_error

\* C8's case: wait() timed out in mid-playback, closed the stream and
\* returned normally.
C8_Witness ==
    /\ pc = "idle"
    /\ ret.op = "wait"
    /\ ret.timed_out
    /\ ret.kind = "returned"
    /\ ~playback_complete
    /\ audio_queue.items # <<>>
    /\ LastOpened # 0
    /\ streams[LastOpened] = "closed"

QueueEmpty == audio_queue.isNone \/ audio_queue.items = <<>>

\* C9: a poll tick that detects a signal goes straight into stop(), with no
\* sleep, and the call then returns (False, True) with the queue empty and
\* the stream stopped and closed; a tick goes to sleep only when neither
\* signal file exists or the check raised an I/O error, so a signal raised
\* during playback is acted on by the next tick that checks for it.
C9_InterruptStops ==
    /\ [][(pc = "ptt_tick" /\ pc' # "ptt_tick" /\ ptt_seen' \in {"toggle", "start"})
             => pc' = "stop_set" /\ ptt_interrupted']_vars
    /\ [][(pc = "ptt_tick" /\ pc' = "ptt_sleep")
             => \/ ptt_seen' = "oserror"
                \/ ~toggle_file /\ ~start_file]_vars
    /\ [][(pc = "ptt_finish" /\ pc' = "idle" /\ ptt_seen \in {"toggle", "start"})
             => /\ QueueEmpty'
                /\ TornDown'
                /\ playback_error = 0
                     => /\ ret'.kind = "returned"
                        /\ ~ret'.completed
                        /\ ret'.interrupted]_vars

\* C9's case: an interrupt in mid-playback: stop() closed the stream and
\* drained chunks off the queue, and the call returned (False, True).
C9_Witness ==
    /\ pc = "idle"
    /\ ret.op = "ptt"
    /\ ret.kind = "returned"
    /\ ret.interrupted
    /\ ~ret.completed
    /\ \E i \in DOMAIN dequeued : dequeued[i].by = 0
    /\ audio_queue.items = <<>>
    /\ LastOpened # 0
    /\ streams[LastOpened] = "closed"

\* C10: a poll tick that checks the signals with both files present (and no
\* I/O error) removes the toggle file, leaves the start file and interrupts;
\* the rest of the call touches neither file and returns (False, True).
C10_TogglePrecedence ==
    /\ [][(/\ pc = "ptt_tick"
           /\ pc' # "ptt_tick"
           /\ toggle_file /\ start_file
           /\ ptt_seen' \in {"toggle", "start", "absent"})
             => /\ ptt_seen' = "toggle"
                /\ ~toggle_file'
                /\ start_file'
                /\ ptt_interrupted']_vars
    /\ [][(op = "ptt" /\ ptt_seen = "toggle")
             => /\ UNCHANGED fileVars
                /\ (pc' = "idle" /\ playback_error = 0)
                     => /\ ret'.kind = "returned"
                        /\ ~ret'.completed
                        /\ ret'.interrupted]_vars

\* C10's case: the toggle file was detected and removed with the start file
\* present, which is still there when the call is about to return.
C10_Witness ==
    /\ pc = "ptt_finish"
    /\ ptt_seen = "toggle"
    /\ ptt_interrupted
    /\ ~toggle_file
    /\ start_file

\* C11: a result of wait_with_ptt_interrupt never has completed and
\* interrupted both true, and when the call returned for another reason than
\* the timeout exactly one of the two is true.
C11_CompletedXorInterrupted ==
    (pc = "idle" /\ ret.op = "ptt" /\ ret.kind = "returned") =>
        /\ ~(ret.completed /\ ret.interrupted)
        /\ ~ret.timed_out => (ret.completed \/ ret.interrupted)

\* C11's case: an interrupt, whose stop() set the completion flag, reported
\* as (False, True).
C11_Witness ==
    /\ pc = "idle"
    /\ ret.op = "ptt"
    /\ ret.kind = "returned"
    /\ ~ret.timed_out
    /\ ret.interrupted
    /\ ~ret.completed
    /\ playback_complete

\* C12: when the timeout elapses with the completion flag unset and no
\* interrupt detected, wait_with_ptt_interrupt returns (False, False),
\* whatever the callback does meanwhile.
C12_TimeoutReturnsFalseFalse ==
    (pc = "idle" /\ ret.op = "ptt" /\ ret.kind = "returned" /\ ret.timed_out)
        => ~ret.completed /\ ~ret.interrupted

C14_StopIdempotent ==
    /\ [](pc = "idle" => ENABLED CallStop)
    /\ []((pc = "idle" /\ ret.op = "stop")
            => /\ ret.kind = "returned"
               /\ playback_complete
               /\ stream = 0
               /\ QueueEmpty)
    /\ [][(after_stop /\ op = "stop") \/ (after_stop' /\ op' = "stop")
             => UNCHANGED <<fieldVars, streams>>]_vars

\* C14's case: a stop() in mid-playback closed the stream and drained the
\* queue, and a second stop() has run to its last step.
C14_Witness ==
    /\ after_stop
    /\ op = "stop"
    /\ pc = "stop_drain"
    /\ \E i \in DOMAIN dequeued : dequeued[i].by = 0
    /\ playback_complete
    /\ stream = 0
    /\ QueueEmpty
    /\ LastOpened # 0
    /\ streams[LastOpened] = "closed"

\* C15: stop(), called directly or on the interrupt path, forces the
\* completion flag and drains the queue only once no stream of the player
\* can invoke the callback any more.
C15_ResetAfterStreamStopped ==
    (pc \in {"stop_stream", "stop_drain"}) => ActiveStreams = {}

\* C16: no step of the player or of a callback removes (or creates) the start
\* file, so on return it is as the last signal check left it: present after
\* an interrupt that the start file caused.
C16_StartFileKept ==
    /\ [][(\/ callerVars' # callerVars
           \/ fieldVars' # fieldVars
           \/ streams' # streams
           \/ histVars' # histVars) => UNCHANGED start_file]_vars
    /\ []((op = "ptt" /\ ptt_seen = "start") => start_file)

\* C16's case: the start file caused the interrupt, stop() has run, and the
\* file is present as the call is about to return.
C16_Witness ==
    /\ pc = "ptt_finish"
    /\ ptt_seen = "start"
    /\ ptt_interrupted
    /\ start_file
    /\ ~toggle_file
    /\ playback_complete

\* The frames of the caller's buffer of n frames.
RawFrames(n) == Buffer(n, FALSE).data

\* C17: when the DSP pass of play() raises, play() goes on: the buffer that is
\* chunked and queued, end marker last, is the caller's unprocessed one, no
\* exception leaves play() before the stream is opened, and the stream is
\* opened and started as after a successful pass.
C17_DspFailureFallsBack ==
    /\ [][(pc = "idle" /\ op' = "play") => pc' = "play_queue"]_vars
    /\ []((pc = "play_open" /\ dsp_failed)
            => LET N == Len(samples.data)
                   k == CeilDiv(N, buffer_size)
               IN  /\ Frames(enqueued) = RawFrames(N)
                   /\ Len(enqueued) = k + 1
                   /\ enqueued[k + 1] = EndMarker
                   /\ ENABLED PlayOpen)
    /\ [][(op = "play" /\ dsp_failed /\ pc' = "idle" /\ ret'.kind = "raised")
             => pc = "play_open" /\ playback_error' = nplays]_vars
    /\ [][(pc = "play_open" /\ dsp_failed /\ pc' # "play_open"
             /\ ret'.kind # "raised")
             => stream' = nplays /\ streams'[nplays] = "active"]_vars

\* C17's case: the DSP pass raised on a buffer of two frames, the raw frames
\* were queued and the stream started; the blocking play() is waiting.
C17_Witness ==
    /\ dsp_failed
    /\ op = "play"
    /\ pc = "wait"
    /\ stream = nplays
    /\ streams[stream] = "active"
    /\ Len(samples.data) = 2
    /\ Frames(enqueued) = RawFrames(2)
    /\ enqueued[Len(enqueued)] = EndMarker

\* C18: play() clears the completion flag and the stored error, and a wait()
\* that follows a play() neither raises nor, unless it timed out, returns
\* without a callback having set the flag for an item of the queue that
\* play() call made.
C18_NoStaleCompletion ==
    /\ [][(pc = "idle" /\ op' = "play")
             => ~playback_complete' /\ playback_error' = 0]_vars
    /\ [][(op = "wait" /\ after_play /\ pc' = "idle")
             => /\ ret'.kind = "returned"
                /\ ~ret'.timed_out => sets >= 1]_vars

C20_LimiterCeiling ==
    \A i \in DOMAIN last_process.output :
        ~RatLess(last_process.ceiling, RatAbs(last_process.output[i]))

\* C20's case: a call with ceiling 1 on a limiter whose gain an earlier call
\* with ceiling 1/2 had brought down to 1/4, with a sample that comes out
\* non-zero.
C20_Witness ==
    /\ last_process.ceiling = Rat(1, 1)
    /\ limiter.gain = Rat(1, 4)
    /\ \E i \in DOMAIN last_process.output : last_process.output[i].n # 0

\* The gain 1.0
One == Rat(1, 1)

\* C21: a process() call on a non-empty block whose peaks all stay at or under
\* the ceiling, made on a limiter whose applied gain is below 1.0, leaves the
\* gain strictly greater than it was, and not above 1.0.
C21_GainReleases ==
    [][(/\ RatLess(limiter.gain, One)
        /\ last_process'.input # <<>>
        /\ \A i \in DOMAIN last_process'.input :
               ~RatLess(last_process'.ceiling,
                        Peak(last_process'.input, i,
                             limiter.lookahead_samples)))
          => /\ RatLess(limiter.gain, limiter'.gain)
             /\ ~RatLess(One, limiter'.gain)]_vars

\* The largest magnitude among the samples i .. i + lookahead of the block.
PeakAhead(block, i, lookahead) ==
    LET hi == IF i + lookahead > Len(block) THEN Len(block) ELSE i + lookahead
        window == {RatAbs(block[j]) : j \in i..hi}
    IN  CHOOSE p \in window : \A q \in window : ~RatLess(p, q)

\* C30: the gain applied to sample i is low enough for the largest magnitude
\* among the input samples i .. i+L: the reduction for a peak is in place
\* before the peak is put out.
C30_LooksAhead ==
    \A i \in DOMAIN last_process.input :
        ~RatLess(last_process.ceiling,
                 RatMul(PeakAhead(last_process.input, i,
                                  limiter.lookahead_samples),
                        last_process.gains[i]))

\* The step is a DSPChain.process call (the only step that records a call).
IsProcessStep == last_chain'.seq = chain_ops' /\ chain_ops' # chain_ops

\* The state is the one a DSPChain.process call has just left.
AfterProcess == last_chain.seq > 0 /\ last_chain.seq = chain_ops

\* The state is the one a DSPChain.update_config call has just left.
AfterUpdate == last_chain.seq > 0 /\ last_chain.seq = chain_ops - 1

\* What the limiter handed on in the recorded call: the buffer the output
\* gain step was given, or the returned block where that step did not run.
LimiterOutput(call) ==
    IF \E k \in DOMAIN call.trace : call.trace[k].stage = "output_gain"
    THEN (CHOOSE e \in {call.trace[k] : k \in DOMAIN call.trace} :
              e.stage = "output_gain").in
    ELSE call.output

\* C22: no sample a process call returns is larger in magnitude than the
\* sample the limiter step handed on, whatever the output gain of the config
\* (a gain above 0 dB set by update_config included), and with the limiter
\* enabled every returned sample is within the ceiling.
C22_OutputGainOnlyAttenuates ==
    (AfterProcess /\ last_chain.config.enabled) =>
        /\ Len(last_chain.output) = Len(LimiterOutput(last_chain))
        /\ \A i \in DOMAIN last_chain.output :
              /\ ~RatLess(RatAbs(LimiterOutput(last_chain)[i]),
                          RatAbs(last_chain.output[i]))
              /\ last_chain.config.limiter_enabled =>
                    ~RatLess(DbToLinear(last_chain.config.limiter_ceiling_db),
                             RatAbs(last_chain.output[i]))

\* C22 witness: a call under a config whose output gain is above 0 dB, the
\* limiter enabled, has returned a block with a sample at the ceiling.
C22_Witness ==
    /\ AfterProcess
    /\ last_chain.config.enabled
    /\ last_chain.config.limiter_enabled
    /\ last_chain.config.output_gain_db > 0
    /\ \E i \in DOMAIN last_chain.output :
          RatAbs(last_chain.output[i]) =
              DbToLinear(last_chain.config.limiter_ceiling_db)

\* C23: a process call on a disabled chain returns its input sample for
\* sample and leaves the EQ, the leveler, the compressor and the limiter as
\* they were.
C23_DisabledIsIdentity ==
    [][(IsProcessStep /\ ~default_chain.config.enabled) =>
          /\ last_chain'.output = last_chain'.input
          /\ default_chain'.eq = default_chain.eq
          /\ default_chain'.leveler = default_chain.leveler
          /\ default_chain'.compressor = default_chain.compressor
          /\ default_chain'.limiter = default_chain.limiter]_vars

\* C23 witness: a disabled chain whose leveler has seen samples before has
\* processed a block that is not empty.
C23_Witness ==
    /\ AfterProcess
    /\ ~last_chain.config.enabled
    /\ Len(last_chain.input) > 0
    /\ default_chain.leveler.seen > 0

\* The place of a stage in the order pre-gain, EQ, leveler, compressor,
\* limiter, output attenuation
StageRank(stage) ==
    CASE stage = "pre_gain" -> 1
      [] stage = "eq" -> 2
      [] stage = "leveler" -> 3
      [] stage = "compressor" -> 4
      [] stage = "limiter" -> 5
      [] stage = "output_gain" -> 6

\* Each step that ran was given the whole buffer the step before it produced.
Chained(call) ==
    /\ call.output = IF call.trace = <<>> THEN call.input
                     ELSE call.trace[Len(call.trace)].out
    /\ \A k \in DOMAIN call.trace :
          call.trace[k].in = IF k = 1 THEN call.input
                             ELSE call.trace[k - 1].out

\* C26: in an enabled process call the steps that run do so in the order
\* pre-gain, EQ, leveler, compressor, limiter, output attenuation, each on
\* the whole buffer the one before it produced, and a step that follows the
\* limiter raises no sample.
C26_FixedStageOrder ==
    (AfterProcess /\ last_chain.config.enabled) =>
        /\ Chained(last_chain)
        /\ \A j, k \in DOMAIN last_chain.trace :
              /\ j < k =>
                    StageRank(last_chain.trace[j].stage)
                        < StageRank(last_chain.trace[k].stage)
              /\ (j < k /\ last_chain.trace[j].stage = "limiter") =>
                    \A i \in DOMAIN last_chain.trace[k].out :
                        ~RatLess(RatAbs(last_chain.trace[k].in[i]),
                                 RatAbs(last_chain.trace[k].out[i]))

\* C26 witness: a call in which all six steps ran on a block that is not
\* empty.
C26_Witness ==
    /\ AfterProcess
    /\ Len(last_chain.trace) = 6
    /\ Len(last_chain.input) > 0

\* The record of the named step in the call, <<>> if it did not run
StepsOf(call, stage) ==
    SelectSeq(call.trace, LAMBDA e : e.stage = stage)

\* C27: in an enabled process call a disabled leveler, compressor or limiter
\* does not run and keeps its state, the buffer going on to the next step as
\* it is, and each of the three that is enabled moves on by exactly the
\* buffer it was given.
C27_DisabledStageSkipped ==
    [][(IsProcessStep /\ default_chain.config.enabled) =>
          LET call == last_chain'
              cfg == default_chain.config
          IN  /\ Chained(call)
              /\ IF cfg.leveler_enabled
                 THEN /\ Len(StepsOf(call, "leveler")) = 1
                      /\ default_chain'.leveler.seen =
                            default_chain.leveler.seen
                                + Len(StepsOf(call, "leveler")[1].in)
                 ELSE /\ StepsOf(call, "leveler") = <<>>
                      /\ default_chain'.leveler = default_chain.leveler
              /\ IF cfg.compressor_enabled
                 THEN /\ Len(StepsOf(call, "compressor")) = 1
                      /\ default_chain'.compressor.seen =
                            default_chain.compressor.seen
                                + Len(StepsOf(call, "compressor")[1].in)
                 ELSE /\ StepsOf(call, "compressor") = <<>>
                      /\ default_chain'.compressor = default_chain.compressor
              /\ IF cfg.limiter_enabled
                 THEN /\ Len(StepsOf(call, "limiter")) = 1
                      /\ LET e == StepsOf(call, "limiter")[1]
                             r == LimiterRun(
                                     [gain |-> default_chain.limiter.gain,
                                      gain_target |->
                                          default_chain.limiter.gain_target,
                                      gains |-> <<>>, output |-> <<>>],
                                     e.in, 1,
                                     default_chain.limiter.lookahead_samples,
                                     DbToLinear(cfg.limiter_ceiling_db),
                                     ChainReleaseCoef)
                         IN  /\ e.out = r.output
                             /\ default_chain'.limiter.gain = r.gain
                             /\ default_chain'.limiter.gain_target =
                                    r.gain_target
                 ELSE /\ StepsOf(call, "limiter") = <<>>
                      /\ default_chain'.limiter = default_chain.limiter]_vars

\* C27 witness: a call with the compressor disabled and the leveler enabled
\* has processed a block that is not empty, the compressor having seen
\* samples in an earlier call.
C27_Witness ==
    /\ AfterProcess
    /\ last_chain.config.enabled
    /\ ~last_chain.config.compressor_enabled
    /\ last_chain.config.leveler_enabled
    /\ Len(last_chain.input) > 0
    /\ default_chain.compressor.seen > 0
    /\ default_chain.leveler.seen > default_chain.compressor.seen

\* The step is a DSPChain.update_config call.
IsUpdateStep ==
    /\ default_chain.created
    /\ chain_ops' # chain_ops
    /\ last_chain' = last_chain

\* C28: update_config puts the new config in place; with the sample rate
\* unchanged every stage keeps its state, with the sample rate changed every
\* stage is as newly made for the new rate.
C28_ReinitOnlyOnRateChange ==
    [][IsUpdateStep =>
          IF default_chain'.config.sample_rate
                = default_chain.config.sample_rate
          THEN /\ default_chain'.leveler = default_chain.leveler
               /\ default_chain'.compressor = default_chain.compressor
               /\ default_chain'.limiter = default_chain.limiter
          ELSE /\ default_chain'.leveler =
                      [sample_rate |-> default_chain'.config.sample_rate,
                       seen |-> 0]
               /\ default_chain'.compressor =
                      [sample_rate |-> default_chain'.config.sample_rate,
                       seen |-> 0]
               /\ default_chain'.limiter.gain = One
               /\ default_chain'.limiter.gain_target = One]_vars

\* C28 witness: an update_config call with the sample rate unchanged has
\* come after a call in which the leveler and the limiter worked: the
\* leveler's count and the limiter's reduced gain are still there.
C28_Witness ==
    /\ AfterUpdate
    /\ default_chain.config.sample_rate = last_chain.config.sample_rate
    /\ default_chain.config # last_chain.config
    /\ default_chain.leveler.seen > 0
    /\ default_chain.limiter.gain # One

\* C29: the EQ of a chain is the one built from the sample rate and the two
\* crossover frequencies of the chain's present config.
C29_EqFollowsConfig ==
    default_chain.created =>
        default_chain.eq = [sample_rate |-> default_chain.config.sample_rate,
                            low_freq |-> default_chain.config.eq_low_freq,
                            high_freq |-> default_chain.config.eq_high_freq]

\* C24: when the chain processes the buffer of a play(samples, r) call of a
\* player, no other player having used the chain, its stages are the ones
\* made for sample rate r.
C24_StagesAtPlayRate ==
    (/\ last_chain.seq > 0
     /\ \A q \in Players : q # last_chain.by => ~dsp_users[q].dsp_chain)
        => /\ last_chain.config.sample_rate = last_chain.rate
           /\ default_chain.leveler.sample_rate = last_chain.rate
           /\ default_chain.compressor.sample_rate = last_chain.rate
           /\ default_chain.limiter.lookahead_samples = last_chain.rate

\* C25: at no time are two threads inside process() of the one chain.
C25_OneThreadInProcess ==
    \A p, q \in Players :
        (dsp_users[p].pc = "in_process" /\ dsp_users[q].pc = "in_process")
            => p = q

\* C33: a poll tick whose check of the signal files raised an I/O error goes
\* on to the sleep and from there to the next tick; it reports no interrupt,
\* does not call stop() and leaves the files, the fields and the streams as
\* they were.
C33_IoErrorAbsorbed ==
    /\ [][(pc = "ptt_tick" /\ pc' # "ptt_tick" /\ ptt_seen' = "oserror")
             => /\ pc' = "ptt_sleep"
                /\ ~ptt_interrupted'
                /\ UNCHANGED <<fileVars, fieldVars, streams>>]_vars
    /\ [][(pc = "ptt_sleep" /\ pc' # "ptt_sleep")
             => pc' = "ptt_tick" /\ ~ptt_interrupted']_vars

\* C33's case: the check raised with the toggle file present: the loop is at
\* its sleep, no interrupt noted, the file still there.
C33_Witness ==
    /\ pc = "ptt_sleep"
    /\ ptt_seen = "oserror"
    /\ toggle_file
    /\ ~ptt_interrupted
    /\ ~playback_complete

\* The play() call that made the present queue, which is also the number of
\* the stream that call opens: a play() in progress has made its queue once
\* it is past line 149.
QueueOwner == IF pc = "play_queue" THEN nplays - 1 ELSE nplays

\* C34: every item a callback takes off the queue of a play() call is taken
\* by the callback of the stream that call opened, and none is taken while
\* play() is still filling the queue.
C34_OwnStreamOnly ==
    /\ \A i \in DOMAIN dequeued : dequeued[i].by \in {0, QueueOwner}
    /\ pc \in {"play_fill", "play_open"} => Delivered = <<>>

\* C35: the stream field is given another value only when the stream it
\* referred to has been closed.
C35_ClosedBeforeDropped ==
    [][(stream # 0 /\ stream' # stream) => streams'[stream] = "closed"]_vars

\* What an invocation that dequeued `item` writes when the frames of the
\* buffer are written unchanged and only the tail of the block is padded.
Expected(item) ==
    IF item.kind = "chunk"
    THEN item.data \o Zeros(buffer_size - Len(item.data))
    ELSE Zeros(buffer_size)

\* C36: in an undisturbed playback every invocation writes the frames of the
\* item it dequeued, padded with zeros at the end when short, no invocation
\* before completion finds the queue empty, and at completion the frames
\* written are the frames of the buffer, in order.
C36_FramesDelivered ==
    /\ [][(dequeued' # dequeued /\ dequeued' # <<>> /\ Undisturbed')
             => LET d == dequeued'[Len(dequeued')]
                IN  /\ last_cb'.stream = d.by
                    /\ last_cb'.out = Expected(d.item)]_vars
    /\ [][(last_cb' # last_cb /\ last_cb'.kind = "underrun") => ~Undisturbed]_vars
    /\ []((Undisturbed /\ streams[stream] = "finished")
            => /\ Frames(Items(Delivered)) = Frames(enqueued)
               /\ \A i \in DOMAIN dequeued : dequeued[i].item = enqueued[i])

\* C36's case: five frames in chunks of two: two full chunks and the partial
\* one were written and the stream is finished.
C36_Witness ==
    /\ Undisturbed
    /\ streams[stream] = "finished"
    /\ buffer_size = 2
    /\ Len(Frames(enqueued)) = 5
    /\ Len(Delivered) = 3
    /\ last_cb.kind = "partial"
    /\ last_cb.out = enqueued[3].data \o <<0>>

\* C37: a poll tick removes the toggle file only when it notes an interrupt,
\* the note stays for the rest of the call, and the result reports it: a
\* result with interrupted = False comes from a call that removed nothing.
C37_ToggleConsumedOnlyOnInterrupt ==
    /\ [][(pc = "ptt_tick" /\ pc' # "ptt_tick" /\ toggle_file /\ ~toggle_file')
             => ptt_interrupted']_vars
    /\ [][(op = "ptt" /\ pc # "ptt_tick" /\ pc' # "idle")
             => UNCHANGED <<toggle_file, ptt_interrupted>>]_vars
    /\ [][(pc = "ptt_finish" /\ pc' = "idle" /\ ret'.kind = "returned")
             => /\ ret'.interrupted = ptt_interrupted
                /\ UNCHANGED toggle_file]_vars

\* C37's case: the call timed out with the toggle file present and returned
\* (False, False); the file is still there.
C37_Witness ==
    /\ pc = "idle"
    /\ ret.op = "ptt"
    /\ ret.kind = "returned"
    /\ ret.timed_out
    /\ ~ret.interrupted
    /\ toggle_file

\* C31: for every sample of a compressor call: with the envelope, after its
\* update, at or under the threshold the gain reduction is 1 and the output
\* is sample x makeup; with the envelope over the threshold the reduction in
\* dB is (envelope over threshold, in dB) x (1 - 1/ratio), the output is
\* sample x reduction x makeup, and for a ratio of 1 or more the reduction
\* factor is at most 1.
C31_CompressorCurve ==
    last_compress.seq > 0 =>
        \A i \in DOMAIN last_compress.input :
            LET c == last_compress
                over == RatDiv(c.envelope[i], c.threshold)
                reduction_db ==
                    RatMul(LinearToDb(over),
                           RatSub(One, RatDiv(One, c.ratio)))
            IN  IF RatLeq(c.envelope[i], c.threshold)
                THEN /\ c.gains[i] = One
                     /\ c.output[i] = RatMul(c.input[i], c.makeup)
                ELSE /\ c.gains[i] = RatDbToLinear(RatSub(Zero, reduction_db))
                     /\ c.output[i] =
                            RatMul(RatMul(c.input[i], c.gains[i]), c.makeup)
                     /\ RatLeq(One, c.ratio) => RatLeq(c.gains[i], One)

\* C31's case: a call with ratio 2 and a makeup of a factor two in which one
\* sample came out at unity reduction and a later one, the envelope then over
\* the threshold, was reduced.
C31_Witness ==
    /\ last_compress.seq > 0
    /\ last_compress.ratio = Rat(2, 1)
    /\ last_compress.makeup = Rat(2, 1)
    /\ Len(last_compress.input) = 2
    /\ last_compress.input[1].n # 0
    /\ RatLeq(last_compress.envelope[1], last_compress.threshold)
    /\ RatLess(last_compress.threshold, last_compress.envelope[2])
    /\ RatLess(last_compress.gains[2], One)
    /\ last_compress.output[2].n # 0

\* C32: a leveler call with a peak-reduction setting of 0 or less returns
\* every sample times the linear output gain and leaves the optical cell and
\* the gain reduction as they were.
C32_LevelerPureGain ==
    [][(last_level'.seq # last_level.seq /\ last_level'.peak_reduction_db <= 0)
          => /\ Len(last_level'.output) = Len(last_level'.input)
             /\ \A i \in DOMAIN last_level'.input :
                   last_level'.output[i] =
                       RatMul(last_level'.input[i],
                              DbToLinear(last_level'.output_gain_db))
             /\ leveler' = leveler]_vars

\* C32's case: a call with setting 0 and an output gain of a factor two on a
\* leveler whose cell and gain reduction an earlier call had moved.
C32_Witness ==
    /\ last_level.seq = 2
    /\ last_level.peak_reduction_db = 0
    /\ last_level.output_gain_db = 1
    /\ \E i \in DOMAIN last_level.input : last_level.input[i].n # 0
    /\ leveler.optical_cell # Zero
    /\ leveler.gain_reduction # One

\* The step is a subscribe() call.
IsSubscribeStep ==
    /\ ptt_caller'.calls # ptt_caller.calls
    /\ ptt_caller'.op = "subscribe"

\* C38: subscribe() on a client whose subscription is running raises and
\* leaves the callback, the running flag and the threads as they were; a
\* subscribe() that follows an unsubscribe() is accepted: it returns, with
\* its callback registered, the flag set and a new thread started.
C38_SubscribeTwiceRaises ==
    /\ [][(IsSubscribeStep /\ ptt_client.running)
             => /\ ptt_caller'.kind = "raised"
                /\ ptt_client' = ptt_client
                /\ ptt_threads' = ptt_threads]_vars
    /\ [][(IsSubscribeStep /\ ptt_caller.op = "unsubscribe")
             => /\ ptt_caller'.kind = "returned"
                /\ ptt_client'.running
                /\ ptt_client'.callback = ptt_caller'.arg
                /\ ptt_client'.thread # ptt_client.thread
                /\ ptt_threads[ptt_client'.thread] = "unstarted"
                /\ ptt_threads'[ptt_client'.thread] = "outer"]_vars

\* C38's case: subscribe() with another callback was refused while the
\* subscriber thread was listening; the first callback is still registered.
C38_Witness ==
    /\ ptt_caller.pc = "idle"
    /\ ptt_caller.op = "subscribe"
    /\ ptt_caller.kind = "raised"
    /\ ptt_caller.arg # ptt_client.callback
    /\ ptt_client.running
    /\ ptt_threads[ptt_client.thread] = "recv"

\* C39: at most one thread is inside the subscriber loop.
C39_OneSubscriberThread == Cardinality(InLoop) <= 1

====
